---------------------------- MODULE Spec2Model ----------------------------
(***************************************************************************)
(* rustbee daemon: the per-connection request handler (process_conn), the  *)
(* device registry behind its mutex, the command decoder and the           *)
(* name-search discovery stream.                                           *)
(*                                                                         *)
(* A byte is a natural number below 256.  Rust arrays are 0-indexed, TLA+  *)
(* sequences 1-indexed: buf[k] in the source is buf[k + 1] here.           *)
(***************************************************************************)
EXTENDS Integers, Sequences, FiniteSets, TLC

(***************************************************************************)
(* Program constants (rustbee-common/src/constants.rs).                    *)
(***************************************************************************)
ADDR_LEN == 6
DATA_LEN == 10
BUFFER_LEN == ADDR_LEN + 2 + 1 + DATA_LEN
OUTPUT_LEN == 1 + 19
U8_MAX == 255

GET == 0
SET == 1

HUE_BAR_1_ADDR == <<232, 212, 234, 196, 98, 0>>
HUE_BAR_2_ADDR == <<236, 39, 167, 214, 90, 156>>

\* impl From<OutputCode> for u8
OutputCode_Success == 0
OutputCode_Failure == 1
OutputCode_DeviceNotFound == 2
OutputCode_Streaming == 3
OutputCode_StreamEOF == 4

\* mod flags: the 1-based bit number of each command
flags_CONNECT == 1
flags_DISCONNECT == 2
flags_PAIR == 3
flags_POWER == 4
flags_COLOR_RGB == 5
flags_COLOR_HEX == 6
flags_COLOR_XY == 7
flags_BRIGHTNESS == 8
flags_NAME == 9
flags_SEARCH_NAME == 10

\* mod masks: the bit mask of each command
masks_CONNECT == 1
masks_DISCONNECT == 2
masks_PAIR == 4
masks_POWER == 8
masks_COLOR_RGB == 16
masks_COLOR_HEX == 32
masks_COLOR_XY == 64
masks_BRIGHTNESS == 128
masks_NAME == 256
masks_SEARCH_NAME == 512

(***************************************************************************)
(* Bounds of the model.                                                    *)
(***************************************************************************)
\* connections the daemon accepts (one spawned handler task each)
NumTasks == 2
\* adapter events one discovery stream may deliver before it ends
MaxEvents == 2
\* width of the flags values enumerated by the single-connection specification
FlagBits == 11
\* longest device name tried
MaxNameLen == 22
\* Streaming frames one search connection may carry
MaxFrames == 2

Tasks == 1..NumTasks
Addrs == {HUE_BAR_1_ADDR, HUE_BAR_2_ADDR}

(***************************************************************************)
(* Small helpers.                                                          *)
(***************************************************************************)
Min(a, b) == IF a <= b THEN a ELSE b

\* (x >> k) & 1
ShrAnd1(x, k) == (x \div (2 ^ k)) % 2

Zeros(n) == [i \in 1..n |-> 0]

Contains(s, x) == \E i \in 1..Len(s) : s[i] = x

\* Vec::retain(|e| *e != x)
RECURSIVE Retain(_, _)
Retain(s, x) ==
  IF s = <<>> THEN <<>>
  ELSE IF Head(s) = x THEN Retain(Tail(s), x)
  ELSE <<Head(s)>> \o Retain(Tail(s), x)

\* iter().filter(|c| *c != 0).collect()
RECURSIVE DropNul(_)
DropNul(s) ==
  IF s = <<>> THEN <<>>
  ELSE IF Head(s) = 0 THEN DropNul(Tail(s))
  ELSE <<Head(s)>> \o DropNul(Tail(s))

\* str::to_lowercase on ASCII bytes
ToLowerByte(b) == IF b >= 65 /\ b <= 90 THEN b + 32 ELSE b
to_lowercase(s) == [i \in 1..Len(s) |-> ToLowerByte(s[i])]

\* str::contains: needle occurs as a contiguous run of hay
str_contains(hay, needle) ==
  \E i \in 0..(Len(hay) - Len(needle)) :
     \A j \in 1..Len(needle) : hay[i + j] = needle[j]

\* String::from_utf8(..).is_ok() for the bytes of the model: ASCII, two-byte
\* sequences (a lead byte 0xC2..0xDF and a continuation byte 0x80..0xBF),
\* and bytes no sequence of one or two bytes allows
RECURSIVE from_utf8_ok(_)
from_utf8_ok(s) ==
  IF s = <<>> THEN TRUE
  ELSE IF s[1] < 128 THEN from_utf8_ok(Tail(s))
  ELSE /\ s[1] >= 194 /\ s[1] <= 223
       /\ Len(s) >= 2
       /\ s[2] >= 128 /\ s[2] <= 191
       /\ from_utf8_ok(Tail(Tail(s)))

(***************************************************************************)
(* res_to_u8!: Ok -> Success, Err -> Failure.                              *)
(***************************************************************************)
res_to_u8(ok) == IF ok THEN OutputCode_Success ELSE OutputCode_Failure

(***************************************************************************)
(* get_commands_from_flags: each test is (flags >> (FLAG - 1)) & 1 == 1,   *)
(* in the order of the source's pushes.                                    *)
(***************************************************************************)
PushIf(v, flags, flag, cmd) ==
  IF ShrAnd1(flags, flag - 1) = 1 THEN Append(v, cmd) ELSE v

\* the pushes in the order of the bit numbers: Disconnect before PairAndTrust
get_commands_from_flags_BitOrder(flags) ==
  LET v1 == PushIf(<<>>, flags, flags_CONNECT, "Connect")
      v2 == PushIf(v1, flags, flags_DISCONNECT, "Disconnect")
      v3 == PushIf(v2, flags, flags_PAIR, "PairAndTrust")
      v4 == PushIf(v3, flags, flags_POWER, "Power")
      v5 == PushIf(v4, flags, flags_COLOR_RGB, "ColorRgb")
      v6 == PushIf(v5, flags, flags_COLOR_HEX, "ColorHex")
      v7 == PushIf(v6, flags, flags_COLOR_XY, "ColorXy")
      v8 == PushIf(v7, flags, flags_BRIGHTNESS, "Brightness")
      v9 == PushIf(v8, flags, flags_NAME, "Name")
  IN  PushIf(v9, flags, flags_SEARCH_NAME, "SearchName")

get_commands_from_flags(flags) ==
  LET v1 == PushIf(<<>>, flags, flags_CONNECT, "Connect")
      v2 == PushIf(v1, flags, flags_PAIR, "PairAndTrust")
      v3 == PushIf(v2, flags, flags_POWER, "Power")
      v4 == PushIf(v3, flags, flags_COLOR_RGB, "ColorRgb")
      v5 == PushIf(v4, flags, flags_COLOR_HEX, "ColorHex")
      v6 == PushIf(v5, flags, flags_COLOR_XY, "ColorXy")
      v7 == PushIf(v6, flags, flags_BRIGHTNESS, "Brightness")
      v8 == PushIf(v7, flags, flags_DISCONNECT, "Disconnect")
      v9 == PushIf(v8, flags, flags_NAME, "Name")
  IN  PushIf(v9, flags, flags_SEARCH_NAME, "SearchName")

(***************************************************************************)
(* Frames.                                                                 *)
(***************************************************************************)
\* the 19 request bytes a client writes: address, flags (little endian),
\* mode byte, data
RequestFrame(addr, flags, mode, data) ==
  addr \o <<flags % 256, flags \div 256>> \o <<mode>> \o data

\* process_conn's decoding of the request buffer
DecodeAddr(buf) == SubSeq(buf, 1, ADDR_LEN)

\* the flags read high byte first
DecodeFlags_BigEndian(buf) == buf[7] * 256 + buf[8]

\* ((buf[7] as u16) << 8) | buf[6] as u16
DecodeFlags(buf) == buf[8] * 256 + buf[7]
DecodeSet(buf) == buf[9] = SET
DecodeData(buf) == SubSeq(buf, 10, BUFFER_LEN)

\* send_output_code's buffer: the code, then zeros
CodeFrame(code) == <<code>> \o Zeros(OUTPUT_LEN - 1)

\* output_buf as process_conn creates it: zeros, with the sentinel u8::MAX
\* in the code byte
InitialOutputBuf == <<U8_MAX>> \o Zeros(OUTPUT_LEN - 1)

\* copy bytes into buf from 0-based offset off, stopping at the buffer's end
WriteAt(buf, off, bytes) ==
  [i \in 1..Len(buf) |->
     IF i - 1 >= off /\ i - 1 < off + Len(bytes) THEN bytes[i - off] ELSE buf[i]]

\* the Streaming frame of one yielded device: code, address, name bytes up
\* to the end of the buffer
StreamingFrame(addr, name) ==
  WriteAt(WriteAt(CodeFrame(OutputCode_Streaming), 1, addr), ADDR_LEN + 1, name)


(***************************************************************************)
(* OutputCode and its two conversions (constants.rs).                      *)
(***************************************************************************)
OutputCode ==
  {"Success", "Failure", "DeviceNotFound", "Streaming", "StreamEOF"}

\* impl From<OutputCode> for u8
u8_from_OutputCode(value) ==
  CASE value = "Success" -> OutputCode_Success
    [] value = "Failure" -> OutputCode_Failure
    [] value = "DeviceNotFound" -> OutputCode_DeviceNotFound
    [] value = "Streaming" -> OutputCode_Streaming
    [] value = "StreamEOF" -> OutputCode_StreamEOF

\* a conversion that maps every unknown byte to Failure
OutputCode_from_u8_Lenient(value) ==
  CASE value = 0 -> "Success"
    [] value = 2 -> "DeviceNotFound"
    [] value = 3 -> "Streaming"
    [] value = 4 -> "StreamEOF"
    [] OTHER -> "Failure"

\* impl From<u8> for OutputCode; the last arm is panic!("Output code is {x}
\* which is not handled")
OutputCode_from_u8(value) ==
  CASE value = 0 -> "Success"
    [] value = 1 -> "Failure"
    [] value = 2 -> "DeviceNotFound"
    [] value = 3 -> "Streaming"
    [] value = 4 -> "StreamEOF"
    [] OTHER -> "panic"

(***************************************************************************)
(* addr_to_uint and uint_to_addr (utils/mod.rs).  A u64 that holds an      *)
(* address is kept as two 24-bit halves, value = hi * 2^24 + lo: the six   *)
(* shifts of addr_to_uint never move a set bit above bit 47.               *)
(***************************************************************************)
\* (res << 8) | byte
Shl8Or(res, byte) ==
  [hi |-> res.hi * 256 + res.lo \div 65536,
   lo |-> (res.lo % 65536) * 256 + byte]

\* the loop of addr_to_uint over the first n bytes of addr
RECURSIVE AddrFold(_, _)
AddrFold(addr, n) ==
  IF n = 0 THEN [hi |-> 0, lo |-> 0]
  ELSE Shl8Or(AddrFold(addr, n - 1), addr[n])

addr_to_uint(addr) == AddrFold(addr, ADDR_LEN)

\* (addr >> (i * 8)) & 0xff
ShrByte(addr, i) ==
  IF i < 3 THEN (addr.lo \div (256 ^ i)) % 256
  ELSE (addr.hi \div (256 ^ (i - 3))) % 256

\* the bytes stored from the front: res[i] instead of res[len - 1 - i]
uint_to_addr_LowByteFirst(addr) == [k \in 1..ADDR_LEN |-> ShrByte(addr, k - 1)]

\* res[res.len() - 1 - i] = byte i of addr, for i in 0..6
uint_to_addr(addr) == [k \in 1..ADDR_LEN |-> ShrByte(addr, ADDR_LEN - k)]

(***************************************************************************)
(* The client's set_brightness (device.rs 141-149): the byte is            *)
(* (((value as f32) / 100.) * 0xff as f32) as u8.  The cast drops the      *)
(* fraction and saturates at 255.  The two f32 roundings do not change the *)
(* integer part for any u8 value: where value * 255 / 100 is an integer,   *)
(* the quotient value / 100 is rounded upwards and the product rounds back *)
(* to that integer.                                                        *)
(***************************************************************************)
\* a cast that rounds to the nearest integer
set_brightness_Rounding(value) == Min((value * 255 + 50) \div 100, U8_MAX)

set_brightness(value) == Min((value * 255) \div 100, U8_MAX)

(***************************************************************************)
(* The colour engine (colors.rs) in fixed point: a coordinate or a colour  *)
(* component is an integer number of 1/Unit.  A point is [x, y, nan]; nan  *)
(* says that the f64 coordinates are NaN, which is what 0.0 / 0.0 gives.   *)
(***************************************************************************)
Unit == 10000
Point(x, y) == [x |-> x, y |-> y, nan |-> FALSE]
NaNPoint == [x |-> 0, y |-> 0, nan |-> TRUE]

\* the gamut of the Hue Play lights
RED == Point(6915, 3038)
GREEN == Point(1700, 7000)
BLUE == Point(1532, 475)

\* the gamma correction of From<Rgb>, ((c / 255 + 0.055) / 1.055) ^ 2.4 in
\* 1/Unit, for the channel values the model uses (all above 0.04045 * 255
\* but 0, for which it is c / 255 / 12.92)
GammaCorrected(c) ==
  CASE c = 0 -> 0
    [] c = 64 -> 513
    [] c = 128 -> 2159
    [] c = 192 -> 5271
    [] c = 255 -> 10000

\* is_within_color_gamut: the three barycentric coordinates lie in 0..=1.
\* With a positive denominator, lambda in 0..=1 is 0 <= numerator <=
\* denominator; a comparison with NaN is false.
is_within_color_gamut(p) ==
  LET denominator == (GREEN.y - BLUE.y) * (RED.x - BLUE.x)
                       + (BLUE.x - GREEN.x) * (RED.y - BLUE.y)
      lambda1 == (GREEN.y - BLUE.y) * (p.x - BLUE.x)
                   + (BLUE.x - GREEN.x) * (p.y - BLUE.y)
      lambda2 == (BLUE.y - RED.y) * (p.x - BLUE.x)
                   + (RED.x - BLUE.x) * (p.y - BLUE.y)
      lambda3 == denominator - lambda1 - lambda2
  IN  /\ ~p.nan
      /\ lambda1 >= 0 /\ lambda1 <= denominator
      /\ lambda2 >= 0 /\ lambda2 <= denominator
      /\ lambda3 >= 0 /\ lambda3 <= denominator

\* project_point_to_line_segment: a + t * ab with t = (ap . ab) / (ab . ab)
\* clamped to 0..=1; NaN.clamp(0., 1.) is NaN
project_point_to_line_segment(p, a, b) ==
  LET abx == b.x - a.x
      aby == b.y - a.y
      dot == (p.x - a.x) * abx + (p.y - a.y) * aby
      len == abx * abx + aby * aby
      t == IF dot <= 0 THEN 0
           ELSE IF dot >= len THEN Unit
           ELSE ((dot \div 1000) * Unit) \div (len \div 1000)
  IN  IF p.nan THEN NaNPoint
      ELSE Point(a.x + (t * abx) \div Unit, a.y + (t * aby) \div Unit)

\* the square of euclidean_distance, which orders as the distance does
DistanceSquared(a, b) == (a.x - b.x) * (a.x - b.x) + (a.y - b.y) * (a.y - b.y)

\* closest_point_in_triangle: the nearest of the three projections; with NaN
\* distances both tests are false and the third projection is returned
closest_point_in_triangle(p, x1, x2, x3) ==
  LET p1_closest == project_point_to_line_segment(p, x1, x2)
      p2_closest == project_point_to_line_segment(p, x2, x3)
      p3_closest == project_point_to_line_segment(p, x3, x1)
      d1 == DistanceSquared(p1_closest, p)
      d2 == DistanceSquared(p2_closest, p)
      d3 == DistanceSquared(p3_closest, p)
  IN  IF p.nan THEN p3_closest
      ELSE IF d1 < d2 /\ d1 < d3 THEN p1_closest
      ELSE IF d2 < d1 /\ d2 < d3 THEN p2_closest
      ELSE p3_closest

\* From<Rgb> for Xy up to line 231: X, Y, Z in 1/(10 * Unit), then
\*   let x = x / (x + y + z);  let y = y / (x + y + z);
\* the second division reads the x of the first
XyBeforeGamut(rgb) ==
  LET red == GammaCorrected(rgb[1])
      green == GammaCorrected(rgb[2])
      blue == GammaCorrected(rgb[3])
      X == (red * 4124 + green * 3576 + blue * 1805) \div 1000
      Y == (red * 2126 + green * 7152 + blue * 722) \div 1000
      Z == (red * 193 + green * 1192 + blue * 9505) \div 1000
      x == (X * Unit) \div (X + Y + Z)
      y == (Y * Unit) \div (10 * x + Y + Z)
  IN  IF X + Y + Z = 0 THEN NaNPoint ELSE Point(x, y)

\* From<Rgb> for Xy, lines 233-237
Xy_from_Rgb(rgb) ==
  LET xy == XyBeforeGamut(rgb)
  IN  IF ~is_within_color_gamut(xy)
      THEN closest_point_in_triangle(xy, RED, GREEN, BLUE)
      ELSE xy

\* (v * 0xFFFF as f64) as u16: the fraction is dropped, NaN becomes 0
ScaleU16(v, nan) == IF nan THEN 0 ELSE (v * 65535) \div Unit

\* set_colors: buf[1..=4] of the request data
set_colors(xy) ==
  LET scaled_x == ScaleU16(xy.x, xy.nan)
      scaled_y == ScaleU16(xy.y, xy.nan)
  IN  <<scaled_x % 256, scaled_x \div 256, scaled_y % 256, scaled_y \div 256>>

(***************************************************************************)
(* The request of search_by_name (device.rs 191-199).                      *)
(***************************************************************************)
\* device.rs 20: the mode byte and the data field of a request, all zeros
EMPTY_BUFFER == Zeros(DATA_LEN + 1)

\* lines 194-199: len = usize::min(bytes.len(), buf.len()), then
\* buf[1..len + 1].copy_from_slice(&bytes[..len]); the range is checked
\* against the buffer, and a range that ends past it panics
search_by_name_buf(bytes) ==
  LET buf == EMPTY_BUFFER
      len == Min(Len(bytes), Len(buf))
  IN  IF len + 1 > Len(buf)
      THEN [panic |-> TRUE, buf |-> buf]
      ELSE [panic |-> FALSE, buf |-> WriteAt(buf, 1, SubSeq(bytes, 1, len))]

\* line 223: _send_packet_to_daemon(stream, None, SEARCH_NAME, buf), the
\* frame written for a buffer that was built
search_by_name_frame(buf) ==
  RequestFrame(Zeros(ADDR_LEN), masks_SEARCH_NAME, buf[1],
               SubSeq(buf, 2, DATA_LEN + 1))

(***************************************************************************)
(* Brightness in the binding layer (ffi.rs 157-194): a percentage to the   *)
(* lamp's byte and back.  Both casts of an f32 to u8 truncate; on the u8   *)
(* range the f32 results have the integer parts of the exact quotients.    *)
(***************************************************************************)
\* ffi.rs 168: buf[1] = (((value as f32) / 100.) * 0xff as f32) as _
ffi_set_brightness(value) == Min((value * U8_MAX) \div 100, U8_MAX)

\* ffi.rs 191-193: ((bit as f32 / 255.) * 100.) as _
ffi_get_brightness(bit) == (bit * 100) \div U8_MAX

(***************************************************************************)
(* Storage (storage.rs): the saved devices, their JSON text, and the file. *)
(* A text is the sequence of its bytes.                                    *)
(***************************************************************************)
\* the characters 0..9 and a..f
HexDigits ==
  <<48, 49, 50, 51, 52, 53, 54, 55, 56, 57, 97, 98, 99, 100, 101, 102>>

\* lines 68-73: format!("{byte:02x}") of every byte, joined with ":"
RECURSIVE format_hex_address(_)
format_hex_address(addr) ==
  IF addr = <<>> THEN <<>>
  ELSE <<HexDigits[(Head(addr) \div 16) + 1], HexDigits[(Head(addr) % 16) + 1]>>
       \o (IF Len(addr) > 1 THEN <<58>> ELSE <<>>)
       \o format_hex_address(Tail(addr))

\* u8::from_str_radix(c, 16) of one digit
HexValue(c) == (CHOOSE i \in 1..16 : HexDigits[i] = c) - 1

\* lines 157-180: the characters other than ':' taken two by two
parse_hex_address(address) ==
  LET chars == SelectSeq(address, LAMBDA c : c # 58)
  IN  [i \in 1..ADDR_LEN |-> HexValue(chars[2 * i - 1]) * 16 + HexValue(chars[2 * i])]

\* the saved devices of the model: SavedDevice::default(), and a red lamp
\* named "Hue" at half brightness
SavedDevices ==
  { [name |-> <<>>, current_color |-> <<0, 0, 0>>, brightness |-> 0],
    [name |-> <<72, 117, 101>>, current_color |-> <<255, 0, 0>>, brightness |-> 127] }

\* Storage.data: the maps from some addresses to saved devices
DataMaps == UNION {[S -> SavedDevices] : S \in SUBSET Addrs}

\* lines 65-78: serialize_data, the same map under the addresses' texts
serialize_data(data) ==
  [k \in {format_hex_address(a) : a \in DOMAIN data} |->
     data[CHOOSE a \in DOMAIN data : format_hex_address(a) = k]]

\* lines 80-84: deserialize_data
deserialize_data(data) ==
  [a \in {parse_hex_address(k) : k \in DOMAIN data} |->
     data[CHOOSE k \in DOMAIN data : parse_hex_address(k) = a]]

\* the orders in which a HashMap of these keys can be iterated
Orders(S) ==
  {o \in [1..Cardinality(S) -> S] : \A i, j \in DOMAIN o : i # j => o[i] # o[j]}

\* a number in decimal
RECURSIVE Decimal(_)
Decimal(n) ==
  IF n < 10 THEN <<48 + n>> ELSE Decimal(n \div 10) \o <<48 + (n % 10)>>

\* serde_json::to_string of a SavedDevice:
\* {"name":"..","current_color":[r,g,b],"brightness":v}
DeviceJson(d) ==
  <<123, 34, 110, 97, 109, 101, 34, 58, 34>> \o d.name \o <<34, 44>> \o
  <<34, 99, 117, 114, 114, 101, 110, 116, 95, 99, 111, 108, 111, 114, 34, 58>> \o
  <<91>> \o Decimal(d.current_color[1]) \o <<44>> \o Decimal(d.current_color[2])
  \o <<44>> \o Decimal(d.current_color[3]) \o <<93, 44>> \o
  <<34, 98, 114, 105, 103, 104, 116, 110, 101, 115, 115, 34, 58>> \o
  Decimal(d.brightness) \o <<125>>

\* serde_json::to_string of the map, its entries in the order o:
\* {"aa:bb:cc:dd:ee:ff":{..},..}
RECURSIVE EntriesJson(_, _)
EntriesJson(m, o) ==
  IF o = <<>> THEN <<>>
  ELSE <<34>> \o Head(o) \o <<34, 58>> \o DeviceJson(m[Head(o)])
       \o (IF Len(o) > 1 THEN <<44>> ELSE <<>>)
       \o EntriesJson(m, Tail(o))

to_string(m, o) == <<123>> \o EntriesJson(m, o) \o <<125>>

\* serde_json::from_str::<HashMap<String, SavedDevice>>: the map whose
\* text this is, in whatever order; an Err for any other text, one with
\* characters after the closing brace included
from_str(content) ==
  LET Parsed == {m \in {serialize_data(d) : d \in DataMaps} :
                   \E o \in Orders(DOMAIN m) : to_string(m, o) = content}
  IN  IF Parsed = {} THEN [ok |-> FALSE, data |-> <<>>]
      ELSE [ok |-> TRUE, data |-> CHOOSE m \in Parsed : TRUE]

\* no file at the path
NoFile == [exists |-> FALSE, content |-> <<>>]

\* lines 133-154: flush.  An absent file is created; an existing one is
\* opened with write(true) alone, so the text is written from offset 0 over
\* the old content and what lies beyond its end stays
flush(file, text) ==
  IF ~file.exists
  THEN [exists |-> TRUE, content |-> text]
  ELSE [exists |-> TRUE,
        content |-> text \o SubSeq(file.content, Len(text) + 1, Len(file.content))]

\* lines 86-105: load_from_file on a Storage::new, whose data is empty: no
\* file or a text that does not parse leaves it empty
load_from_file(file) ==
  IF ~file.exists THEN <<>>
  ELSE LET r == from_str(file.content)
       IN  IF r.ok THEN deserialize_data(r.data) ELSE <<>>

\* lines 115-121: get_devices of a fresh Storage: data is empty, so the
\* file is loaded
get_devices(file) == load_from_file(file)

(***************************************************************************)
(* The environment the model draws from.                                   *)
(***************************************************************************)
\* the name each device advertises: "Hue" and "Lamp"
AdvertisedName(addr) ==
  IF addr = HUE_BAR_1_ADDR THEN <<72, 117, 101>> ELSE <<76, 97, 109, 112>>

\* bytes a GATT read returns when it succeeds
PowerBytes == {<<0>>, <<1>>}
BrightnessBytes == {<<127>>}
ColorBytes == {<<43, 177, 202, 77>>}

\* a GATT read: a value, the characteristic absent from the resolved map
\* (Ok(None)), a read error, or a value too short for the caller
GattReadResults == {"ok", "absent", "err", "short"}
\* a GATT write: written (Ok(true)), characteristic absent (Ok(false)), error
GattWriteResults == {"written", "absent", "err"}
\* get_device under the 30 s timeout
DiscoverResults == {"timeout", "err", "none", "found"}
\* is_device_connected
IsConnectedResults == {"true", "false", "err"}
\* Device::name: Ok(Some(name)), Ok(None), Err
NameResults == {"some", "none", "err"}

\* request data: zeros, the query "hue", a SET payload, a byte that is not
\* UTF-8
DataZero == Zeros(DATA_LEN)
DataHue == <<104, 117, 101>> \o Zeros(DATA_LEN - 3)
DataSet == <<1, 2, 3, 4>> \o Zeros(DATA_LEN - 4)
DataBad == <<255>> \o Zeros(DATA_LEN - 1)
DataFor(flags) ==
  IF ShrAnd1(flags, flags_SEARCH_NAME - 1) = 1
  THEN {DataHue, DataBad} ELSE {DataSet}

\* flags values of the concurrent specification: no command, CONNECT,
\* CONNECT|POWER, DISCONNECT|PAIR, COLOR_RGB|BRIGHTNESS|NAME, SEARCH_NAME,
\* a bit outside the ten command bits
DaemonFlags == {0, 1, 9, 6, 400, 512, 1024}
\* flags values of the single-connection specification
AllFlags == 0..(2 ^ FlagBits - 1)
\* mode bytes: the two the clients send, and one they do not
ModeBytes == {GET, SET, U8_MAX}

(***************************************************************************)
(* State.                                                                  *)
(***************************************************************************)
VARIABLES
  pc,          \* per task: where process_conn is suspended
  req,         \* per task: the decoded request (addr, flags, set, data)
  commands,    \* per task: the commands vector still to run
  output_buf,  \* per task: the response buffer being accumulated
  out,         \* per task: the frames written to the connection so far
  executed,    \* per task: the commands run by the execution phase, with
               \*           the code each produced
  setup,       \* per task: the calls the handler made to bring its entry
               \*           to Ready, with the result of each
  device_sent, \* per task: Streaming frames sent by the name search
  nev,         \* per task: adapter events the discovery stream delivered
  lock,        \* the registry mutex: 0 free, else the task holding the guard
  devices,     \* the registry: address -> entry, or NoEntry
  conv,        \* a conversion of the wire format: its input and its result
  client,      \* a client's connection: a search_by_name stream or one
               \*   send_packet_to_daemon
  main,        \* the daemon's main: where it is, its exit code, the socket
               \*   file, the entries its last loop has still to visit and
               \*   those it issued try_disconnect on
  call         \* one call of try_connect or try_pair: where it is, its
               \*   retries counter, the platform calls it made with their
               \*   results, and what it returned

vars == <<pc, req, commands, output_buf, out, executed, setup, device_sent,
          nev, lock, devices, conv, client, main, call>>

\* what no step of process_conn touches
others == <<conv, client, main, call>>

NoReq == [addr |-> <<>>, flags |-> 0, set |-> FALSE, data |-> <<>>]
NoEntry == [present |-> FALSE, services |-> FALSE]
\* HueDevice::new + set_device: a handle, services: None
NewEntry == [present |-> TRUE, services |-> FALSE]

\* no conversion under way
NoConv == [op |-> "none", arg |-> <<>>, res |-> <<>>, applied |-> FALSE]
\* the exit code of a process that has not exited
Running == -1
\* main in its accept loop: the listener is bound to the socket file
Serving ==
  [pc |-> "accept", exit |-> Running, socket |-> "bound", todo |-> {},
   drained |-> {}]
\* the process has not exited: its tasks run
Alive == main.exit = Running
\* no try_connect or try_pair under way
NoCall == [fn |-> "none", pc |-> "none", retries |-> 0, log |-> <<>>, ret |-> "none"]
\* no search_by_name stream under way
NoClient ==
  [pc |-> "none", wire |-> <<>>, closed |-> FALSE, got |-> <<>>,
   yielded |-> <<>>, ret |-> <<>>]

\* the daemon after construction: no connection, an empty registry
InitDaemon ==
  /\ pc = [t \in Tasks |-> "idle"]
  /\ req = [t \in Tasks |-> NoReq]
  /\ commands = [t \in Tasks |-> <<>>]
  /\ output_buf = [t \in Tasks |-> InitialOutputBuf]
  /\ out = [t \in Tasks |-> <<>>]
  /\ executed = [t \in Tasks |-> <<>>]
  /\ setup = [t \in Tasks |-> <<>>]
  /\ device_sent = [t \in Tasks |-> 0]
  /\ nev = [t \in Tasks |-> 0]
  /\ lock = 0
  /\ devices = [a \in Addrs |-> NoEntry]

Init ==
  /\ InitDaemon
  /\ conv = NoConv
  /\ client = NoClient
  /\ main = Serving
  /\ call = NoCall

(***************************************************************************)
(* main: listener.accept() hands a connection to a spawned process_conn.   *)
(* The loop accepts one connection at a time: task t is the t-th accepted. *)
(***************************************************************************)
\* a loop that handles a connection to its end before it accepts the next
Accept_AfterPrevious(t) ==
  /\ main.pc = "accept"
  /\ pc[t] = "idle"
  /\ \A u \in Tasks : u < t => pc[u] \in {"done", "panicked"}
  /\ pc' = [pc EXCEPT ![t] = "read"]
  /\ UNCHANGED <<req, setup, commands, output_buf, out, executed, device_sent,
                 nev, lock, devices>>
  /\ UNCHANGED others

Accept(t) ==
  /\ main.pc = "accept"
  /\ pc[t] = "idle"
  /\ \A u \in Tasks : u < t => pc[u] # "idle"
  /\ pc' = [pc EXCEPT ![t] = "read"]
  /\ UNCHANGED <<req, setup, commands, output_buf, out, executed,
                 device_sent, nev, lock, devices>>
  /\ UNCHANGED others

(***************************************************************************)
(* process_conn, read_exact fails: the client closed before 19 bytes.      *)
(***************************************************************************)
\* a handler that answers a short frame with a Failure frame
ReadShort_Replies(t) ==
  /\ Alive
  /\ pc[t] = "read"
  /\ pc' = [pc EXCEPT ![t] = "done"]
  /\ out' = [out EXCEPT ![t] = Append(@, CodeFrame(OutputCode_Failure))]
  /\ UNCHANGED <<req, setup, commands, output_buf, executed, device_sent, nev,
                 lock, devices>>
  /\ UNCHANGED others

ReadShort(t) ==
  /\ Alive
  /\ pc[t] = "read"
  /\ pc' = [pc EXCEPT ![t] = "done"]
  /\ UNCHANGED <<req, setup, commands, output_buf, out, executed,
                 device_sent, nev, lock, devices>>
  /\ UNCHANGED others

(***************************************************************************)
(* process_conn, read_exact succeeds: decode the frame, build the commands *)
(* vector, and branch on SearchName.                                       *)
(***************************************************************************)
ReadFrame(t, Flags) ==
  /\ Alive
  /\ pc[t] = "read"
  /\ \E a \in Addrs, f \in Flags, m \in ModeBytes :
       \E d \in DataFor(f) :
         LET buf == RequestFrame(a, f, m, d)
             cmds == get_commands_from_flags(DecodeFlags(buf))
         IN  /\ req' = [req EXCEPT ![t] = [addr |-> DecodeAddr(buf),
                                           flags |-> DecodeFlags(buf),
                                           set |-> DecodeSet(buf),
                                           data |-> DecodeData(buf)]]
             /\ commands' = [commands EXCEPT ![t] = cmds]
             /\ pc' = [pc EXCEPT ![t] =
                         IF Contains(cmds, "SearchName")
                         THEN "search_open" ELSE "lock"]
  /\ UNCHANGED <<setup, output_buf, out, executed, device_sent, nev, lock,
                 devices>>
  /\ UNCHANGED others

(***************************************************************************)
(* A panic (an unwrap on Err) unwinds the task: the connection is dropped  *)
(* with whatever was written, and a held guard is released.                *)
(***************************************************************************)
Panic(t) ==
  /\ pc' = [pc EXCEPT ![t] = "panicked"]
  /\ lock' = IF lock = t THEN 0 ELSE lock

(***************************************************************************)
(* Name search, lines 139-143: the query is the data without NULs, which   *)
(* must be UTF-8 (unwrap), and search_devices_by_name must succeed         *)
(* (unwrap).                                                               *)
(***************************************************************************)
SearchOpenStep(t, opened) ==
  IF from_utf8_ok(DropNul(req[t].data)) /\ opened
  THEN pc' = [pc EXCEPT ![t] = "stream"] /\ lock' = lock
  ELSE Panic(t)

SearchOpen(t) ==
  /\ Alive
  /\ pc[t] = "search_open"
  /\ \E opened \in BOOLEAN : SearchOpenStep(t, opened)
  /\ UNCHANGED <<req, setup, commands, output_buf, out, executed,
                 device_sent, nev, devices>>
  /\ UNCHANGED others

\* the query the stream was opened with
Query(t) == DropNul(req[t].data)

\* search_devices_by_name's test of a discovered device's name
NameMatches(device_name, name) ==
  str_contains(to_lowercase(device_name), to_lowercase(name))

(***************************************************************************)
(* The discovery stream, one pull of the unfold closure.                   *)
(* DeviceAdded(addr) whose name contains the query: Some(hue_device); the  *)
(* handler then asks the device for its name and writes a Streaming frame. *)
(***************************************************************************)
StreamYield(t) ==
  /\ Alive
  /\ pc[t] = "stream"
  /\ nev[t] < MaxEvents
  /\ \E a \in Addrs, r \in NameResults :
       /\ NameMatches(AdvertisedName(a), Query(t))
       /\ nev' = [nev EXCEPT ![t] = @ + 1]
       /\ IF r = "err"
          THEN /\ Panic(t)
               /\ UNCHANGED <<out, device_sent>>
          ELSE /\ out' = [out EXCEPT ![t] = Append(@,
                           StreamingFrame(a, IF r = "some"
                                             THEN AdvertisedName(a)
                                             ELSE <<>>))]
               /\ device_sent' = [device_sent EXCEPT ![t] = @ + 1]
               /\ UNCHANGED <<pc, lock>>
  /\ UNCHANGED <<req, setup, commands, output_buf, executed, devices>>
  /\ UNCHANGED others

\* any other event, or a device that does not match: HueDevice::default(),
\* which the filter drops
StreamSkip(t) ==
  /\ Alive
  /\ pc[t] = "stream"
  /\ nev[t] < MaxEvents
  /\ nev' = [nev EXCEPT ![t] = @ + 1]
  /\ UNCHANGED <<pc, req, setup, commands, output_buf, out, executed,
                 device_sent, lock, devices>>
  /\ UNCHANGED others

\* Ok(None) | Err(_): no more events or the timeout elapsed; the handler
\* writes DeviceNotFound or StreamEOF and returns
StreamEnd(t) ==
  /\ Alive
  /\ pc[t] = "stream"
  /\ out' = [out EXCEPT ![t] = Append(@,
               IF device_sent[t] = 0
               THEN CodeFrame(OutputCode_DeviceNotFound)
               ELSE CodeFrame(OutputCode_StreamEOF))]
  /\ pc' = [pc EXCEPT ![t] = "done"]
  /\ UNCHANGED <<req, setup, commands, output_buf, executed, device_sent, nev,
                 lock, devices>>
  /\ UNCHANGED others

(***************************************************************************)
(* The registry mutex (tokio::sync::Mutex): lock().await resolves once no  *)
(* task holds the guard.                                                   *)
(***************************************************************************)
\* a mutex that never makes a task wait
MutexFree_NoExclusion(t) == TRUE

MutexFree(t) == lock = 0

\* a handler that never takes the short cut of line 227
ConnectQueryOnly_Never(t) == FALSE

\* line 227: the only command is Connect and the mode is GET
ConnectQueryOnly(t) ==
  Len(commands[t]) = 1 /\ commands[t][1] = "Connect" /\ ~req[t].set

\* lines 269-273: the priority command runs first when it was selected
ExecStart(t) == IF Contains(commands[t], "Connect") THEN "prio" ELSE "loop"

\* lines 224-266, once the entry exists: where the handler suspends next
AfterLookup(t, entry) ==
  IF ConnectQueryOnly(t) THEN "isconn"
  ELSE IF ~entry.services THEN "pair"
  ELSE ExecStart(t)

\* a handler that drops the guard as soon as the lookup is over
LockAfterLookup_DropsEarly(t, entry) == 0

\* the guard is dropped (line 266) exactly when the handler goes on to
\* execute commands
LockAfterLookup(t, entry) ==
  IF AfterLookup(t, entry) \in {"prio", "loop"} THEN 0 ELSE t

(***************************************************************************)
(* Line 187: devices.lock().await, then the lookup of the address.         *)
(***************************************************************************)
Lock(t) ==
  /\ Alive
  /\ pc[t] = "lock"
  /\ MutexFree(t)
  /\ LET entry == devices[req[t].addr]
     IN  IF ~entry.present
         THEN /\ pc' = [pc EXCEPT ![t] = "discover"]
              /\ lock' = t
         ELSE /\ pc' = [pc EXCEPT ![t] = AfterLookup(t, entry)]
              /\ lock' = LockAfterLookup(t, entry)
  /\ UNCHANGED <<req, setup, commands, output_buf, out, executed,
                 device_sent, nev, devices>>
  /\ UNCHANGED others

(***************************************************************************)
(* Lines 188-222: get_device under the 30 s timeout, guard held.           *)
(***************************************************************************)
\* a lookup that inserts an entry whatever get_device returned
DiscoverStep_InsertAlways(t, r) ==
  /\ devices' = [devices EXCEPT ![req[t].addr] = NewEntry]
  /\ lock' = 0
  /\ pc' = [pc EXCEPT ![t] = "done"]
  /\ out' = [out EXCEPT ![t] = Append(@,
               IF r = "err" THEN CodeFrame(OutputCode_Failure)
               ELSE CodeFrame(OutputCode_DeviceNotFound))]

\* get_device came back with r: the entry is inserted when the device was
\* found; a timeout or a stream that ended without the address is answered
\* DeviceNotFound, an adapter error Failure, and the handler returns
DiscoverStep(t, r) ==
  IF r = "found"
  THEN /\ devices' = [devices EXCEPT ![req[t].addr] = NewEntry]
       /\ pc' = [pc EXCEPT ![t] = AfterLookup(t, NewEntry)]
       /\ lock' = LockAfterLookup(t, NewEntry)
       /\ out' = out
  ELSE /\ out' = [out EXCEPT ![t] = Append(@,
                    IF r = "err" THEN CodeFrame(OutputCode_Failure)
                    ELSE CodeFrame(OutputCode_DeviceNotFound))]
       /\ pc' = [pc EXCEPT ![t] = "done"]
       /\ lock' = 0
       /\ devices' = devices

Discover(t) ==
  /\ Alive
  /\ pc[t] = "discover"
  /\ \E r \in DiscoverResults : DiscoverStep(t, r)
  /\ UNCHANGED <<req, setup, commands, output_buf, executed, device_sent, nev>>
  /\ UNCHANGED others

(***************************************************************************)
(* Lines 227-237: the CONNECT-only GET query, guard held.                  *)
(***************************************************************************)
\* is_device_connected came back with r: Success and the flag in payload
\* byte 0, or Failure; the frame is sent and the handler returns
IsConnectedStep(t, r) ==
  LET buf == IF r = "err"
             THEN [output_buf[t] EXCEPT ![1] = OutputCode_Failure]
             ELSE [output_buf[t] EXCEPT ![1] = OutputCode_Success,
                                        ![2] = IF r = "true" THEN 1 ELSE 0]
  IN  /\ output_buf' = [output_buf EXCEPT ![t] = buf]
      /\ out' = [out EXCEPT ![t] = Append(@, buf)]
      /\ pc' = [pc EXCEPT ![t] = "done"]
      /\ lock' = 0

IsConnectedQuery(t) ==
  /\ Alive
  /\ pc[t] = "isconn"
  /\ \E r \in IsConnectedResults : IsConnectedStep(t, r)
  /\ UNCHANGED <<req, setup, commands, executed, device_sent, nev, devices>>
  /\ UNCHANGED others

(***************************************************************************)
(* Lines 239-261: bringing the entry to Ready, guard held.  A failing step *)
(* removes the entry and returns.                                          *)
(***************************************************************************)
SetupFailed(t) ==
  /\ devices' = [devices EXCEPT ![req[t].addr] = NoEntry]
  /\ pc' = [pc EXCEPT ![t] = "done"]
  /\ lock' = 0
  /\ out' = out

\* the call fn of the setup returned: the handler's log notes it
SetupCalled(t, fn, ok) ==
  setup' = [setup EXCEPT ![t] = Append(@, [fn |-> fn, ok |-> ok])]

\* a handler that goes on to try_connect whatever try_pair returned
SetupPairStep_IgnoresError(t, ok) ==
  /\ pc' = [pc EXCEPT ![t] = "connect"]
  /\ UNCHANGED <<lock, devices, out>>

\* lines 240-247: try_pair returned
SetupPairStep(t, ok) ==
  IF ok
  THEN /\ pc' = [pc EXCEPT ![t] = "connect"]
       /\ UNCHANGED <<lock, devices, out>>
  ELSE SetupFailed(t)

SetupPair(t) ==
  /\ Alive
  /\ pc[t] = "pair"
  /\ \E ok \in BOOLEAN :
       /\ SetupCalled(t, "try_pair", ok)
       /\ SetupPairStep(t, ok)
  /\ UNCHANGED <<req, commands, output_buf, executed, device_sent, nev>>
  /\ UNCHANGED others

\* lines 248-255: try_connect returned
SetupConnect(t) ==
  /\ Alive
  /\ pc[t] = "connect"
  /\ \E ok \in BOOLEAN :
       /\ SetupCalled(t, "try_connect", ok)
       /\ IF ok
          THEN /\ pc' = [pc EXCEPT ![t] = "services"]
               /\ UNCHANGED <<lock, devices, out>>
          ELSE SetupFailed(t)
  /\ UNCHANGED <<req, commands, output_buf, executed, device_sent, nev>>
  /\ UNCHANGED others

\* lines 256-266: set_services stores the resolved map in the entry
\* (bluetooth.rs 169) unless a `?` of it returned early; the handler then
\* clones the entry and drops the guard
SetupServices(t) ==
  /\ Alive
  /\ pc[t] = "services"
  /\ \E ok \in BOOLEAN :
       /\ SetupCalled(t, "set_services", ok)
       /\ IF ok
          THEN /\ devices' = [devices EXCEPT ![req[t].addr].services = TRUE]
               /\ pc' = [pc EXCEPT ![t] = ExecStart(t)]
               /\ lock' = 0
               /\ out' = out
          ELSE SetupFailed(t)
  /\ UNCHANGED <<req, commands, output_buf, executed, device_sent, nev>>
  /\ UNCHANGED others

(***************************************************************************)
(* Lines 268-344: command execution on the cloned entry, guard released.   *)
(***************************************************************************)
\* line 271 and line 336: output_buf[0] = u8::min(output_buf[0], value)
Accumulate(buf, value) == [buf EXCEPT ![1] = Min(buf[1], value)]

\* lines 318-334: copy the name into the payload, dots when it was cut
\* the copy alone, without the three '.' bytes
NamePayload_NoEllipsis(buf, name) ==
  WriteAt(buf, 1, SubSeq(name, 1, Min(Len(name), OUTPUT_LEN - 1)))

NamePayload(buf, name) ==
  LET copied == WriteAt(buf, 1, SubSeq(name, 1, Min(Len(name), OUTPUT_LEN - 1)))
  IN  IF Len(name) > OUTPUT_LEN - 1
      THEN [copied EXCEPT ![OUTPUT_LEN - 2] = 46,
                          ![OUTPUT_LEN - 1] = 46,
                          ![OUTPUT_LEN] = 46]
      ELSE copied

Ran(value, buf) == [panic |-> FALSE, value |-> value, buf |-> buf]
Panicked(buf) == [panic |-> TRUE, value |-> U8_MAX, buf |-> buf]

\* a SET: res_to_u8!(set_x(..)); set_x is Ok unless the write itself errs
\* (the bool of write_gatt_char is dropped)
SetOutcome(r, buf) == Ran(res_to_u8(r # "err"), buf)

SetOutcomes(buf) == {SetOutcome(r, buf) : r \in GattWriteResults}

PowerState(byte) == IF byte = 1 THEN 1 ELSE 0
BrightnessValue(byte) == byte

\* a GET: the read's result decides the code; Written are the buffers a
\* value leaves behind.  A value too short for the caller makes
\* bytes.first().unwrap() or copy_from_slice panic
ReadOutcome(r, buf, Written) ==
  CASE r = "ok" -> {Ran(OutputCode_Success, w) : w \in Written}
    [] r \in {"absent", "err"} -> {Ran(OutputCode_Failure, buf)}
    [] r = "short" -> {Panicked(buf)}

ReadOutcomes(buf, Written) ==
  UNION {ReadOutcome(r, buf, Written) : r \in GattReadResults}

\* Command::Name: the name is copied when there is one; res_to_u8!(res)
NameOutcome(r, addr, buf) ==
  CASE r = "some" -> Ran(OutputCode_Success, NamePayload(buf, AdvertisedName(addr)))
    [] r = "none" -> Ran(OutputCode_Success, buf)
    [] r = "err" -> Ran(OutputCode_Failure, buf)

\* the commands that read or write a GATT characteristic
GattCommands == {"Power", "Brightness", "ColorRgb", "ColorHex", "ColorXy"}

\* the buffers a successful GET of cmd can leave: output_buf[1] = state,
\* output_buf[1] = v, or output_buf[i + 1] = byte for the four colour bytes
ReadWrites(cmd, buf) ==
  CASE cmd = "Power" ->
         {[buf EXCEPT ![2] = PowerState(b[1])] : b \in PowerBytes}
    [] cmd = "Brightness" ->
         {[buf EXCEPT ![2] = BrightnessValue(b[1])] : b \in BrightnessBytes}
    [] cmd \in {"ColorRgb", "ColorHex", "ColorXy"} ->
         {WriteAt(buf, 1, b) : b \in ColorBytes}

\* the match of the for loop, lines 276-335: what one command can do to
\* the buffer, and the code it produces
CommandOutcomes(cmd, set, addr, buf) ==
  CASE cmd \in {"PairAndTrust", "Disconnect"} ->
         {Ran(res_to_u8(ok), buf) : ok \in BOOLEAN}
    [] cmd \in GattCommands ->
         IF set THEN SetOutcomes(buf)
         ELSE ReadOutcomes(buf, ReadWrites(cmd, buf))
    [] cmd = "Name" ->
         {NameOutcome(r, addr, buf) : r \in NameResults}

\* lines 269-273: try_connect, then the command leaves the vector
PrioConnect(t) ==
  /\ Alive
  /\ pc[t] = "prio"
  /\ \E ok \in BOOLEAN :
       /\ output_buf' = [output_buf EXCEPT ![t] = Accumulate(@, res_to_u8(ok))]
       /\ executed' = [executed EXCEPT ![t] =
                         Append(@, [cmd |-> "Connect", value |-> res_to_u8(ok)])]
  /\ commands' = [commands EXCEPT ![t] = Retain(@, "Connect")]
  /\ pc' = [pc EXCEPT ![t] = "loop"]
  /\ UNCHANGED <<req, setup, out, device_sent, nev, lock, devices>>
  /\ UNCHANGED others

\* the command ran with outcome o: a panic unwinds the task, otherwise the
\* code is folded into the code byte (line 336)
RunCommand(t, cmd, o) ==
  IF o.panic
  THEN /\ Panic(t)
       /\ UNCHANGED <<output_buf, executed>>
  ELSE /\ output_buf' = [output_buf EXCEPT ![t] = Accumulate(o.buf, o.value)]
       /\ executed' = [executed EXCEPT ![t] =
                         Append(@, [cmd |-> cmd, value |-> o.value])]
       /\ UNCHANGED <<pc, lock>>

\* one turn of the for loop, with its 100 ms sleep
LoopCommand(t) ==
  /\ Alive
  /\ pc[t] = "loop"
  /\ commands[t] # <<>>
  /\ LET cmd == Head(commands[t])
     IN  IF cmd \in {"Connect", "SearchName"}
         THEN UNCHANGED <<pc, output_buf, executed, lock>>
         ELSE \E o \in CommandOutcomes(cmd, req[t].set, req[t].addr,
                                       output_buf[t]) : RunCommand(t, cmd, o)
  /\ commands' = [commands EXCEPT ![t] = Tail(@)]
  /\ UNCHANGED <<req, setup, out, device_sent, nev, devices>>
  /\ UNCHANGED others

\* a handler that writes its buffer whatever the code byte holds
Finish_AlwaysWrites(t) ==
  /\ Alive
  /\ pc[t] = "loop"
  /\ commands[t] = <<>>
  /\ out' = [out EXCEPT ![t] = Append(@, output_buf[t])]
  /\ pc' = [pc EXCEPT ![t] = "done"]
  /\ UNCHANGED <<req, setup, commands, output_buf, executed, device_sent, nev,
                 lock, devices>>
  /\ UNCHANGED others

\* lines 342-344: the frame is written unless the code byte is still the
\* sentinel
Finish(t) ==
  /\ Alive
  /\ pc[t] = "loop"
  /\ commands[t] = <<>>
  /\ out' = [out EXCEPT ![t] =
               IF output_buf[t][1] # U8_MAX THEN Append(@, output_buf[t]) ELSE @]
  /\ pc' = [pc EXCEPT ![t] = "done"]
  /\ UNCHANGED <<req, setup, commands, output_buf, executed, device_sent,
                 nev, lock, devices>>
  /\ UNCHANGED others

(***************************************************************************)
(* Specifications.                                                         *)
(***************************************************************************)
Handler(t) ==
  \/ ReadShort(t)
  \/ SearchOpen(t)
  \/ StreamYield(t)
  \/ StreamSkip(t)
  \/ StreamEnd(t)
  \/ Lock(t)
  \/ Discover(t)
  \/ IsConnectedQuery(t)
  \/ SetupPair(t)
  \/ SetupConnect(t)
  \/ SetupServices(t)
  \/ PrioConnect(t)
  \/ LoopCommand(t)
  \/ Finish(t)

\* the daemon: NumTasks connections, handled concurrently
Next == \E t \in Tasks : Accept(t) \/ ReadFrame(t, DaemonFlags) \/ Handler(t)

Spec == Init /\ [][Next]_vars

\* one connection, every flags value of FlagBits bits
NextOne == Accept(1) \/ ReadFrame(1, AllFlags) \/ Handler(1)

SpecOne == Init /\ [][NextOne]_vars

(***************************************************************************)
(* main (main.rs 49-98): the start-up checks, the accept loop's two ways   *)
(* out, the disconnection of the registry's devices and the removal of the *)
(* socket file.                                                            *)
(***************************************************************************)
\* the value of the registry mutex while main holds the guard
MainGuard == NumTasks + 1
\* flags values of the requests served around a shutdown: CONNECT alone,
\* CONNECT|POWER and SEARCH_NAME
MainFlags == {1, 9, 512}
\* the addresses with an entry in the registry
Registered == {a \in Addrs : devices[a].present}

\* a start-up that does not look for the socket file
StartStep_NoExistsCheck(writable, created) ==
  IF ~writable
  THEN main' = [main EXCEPT !.pc = "exited", !.exit = 2]
  ELSE IF ~created
  THEN main' = [main EXCEPT !.pc = "exited", !.exit = 1]
  ELSE main' = [main EXCEPT !.pc = "accept", !.socket = "bound"]

\* lines 50-75.  writable: /var/run can be read and written; created: the
\* listener could be created on the socket path
StartStep(writable, created) ==
  IF ~writable \/ main.socket # "absent"
  THEN main' = [main EXCEPT !.pc = "exited", !.exit = 2]
  ELSE IF ~created
  THEN main' = [main EXCEPT !.pc = "exited", !.exit = 1]
  ELSE main' = [main EXCEPT !.pc = "accept", !.socket = "bound"]

Start ==
  /\ main.pc = "start"
  /\ \E writable \in BOOLEAN, created \in BOOLEAN : StartStep(writable, created)
  /\ UNCHANGED <<pc, req, setup, commands, output_buf, out, executed,
                 device_sent, nev, lock, devices, conv, client, call>>

\* line 82: signal::ctrl_c() resolves
Interrupt ==
  /\ main.pc = "accept"
  /\ main' = [main EXCEPT !.pc = "left"]
  /\ UNCHANGED <<pc, req, setup, commands, output_buf, out, executed,
                 device_sent, nev, lock, devices, conv, client, call>>

\* lines 83-87: no connection arrived within TIMEOUT_SECS
IdleTimeout ==
  /\ main.pc = "accept"
  /\ main' = [main EXCEPT !.pc = "left"]
  /\ UNCHANGED <<pc, req, setup, commands, output_buf, out, executed,
                 device_sent, nev, lock, devices, conv, client, call>>

\* line 94: devices.lock().await.iter()
DrainLock ==
  /\ main.pc = "left"
  /\ lock = 0
  /\ lock' = MainGuard
  /\ main' = [main EXCEPT !.pc = "drain", !.todo = Registered]
  /\ UNCHANGED <<pc, req, setup, commands, output_buf, out, executed,
                 device_sent, nev, devices, conv, client, call>>

\* a loop that a failed try_disconnect ends
DrainStep_StopOnError(a, ok) ==
  main' = [main EXCEPT !.drained = @ \cup {a},
                       !.todo = IF ok THEN @ \ {a} ELSE {}]

\* line 95: let _ = device.try_disconnect().await, on the entry of a; ok is
\* what try_disconnect returned
DrainStep(a, ok) ==
  main' = [main EXCEPT !.drained = @ \cup {a}, !.todo = @ \ {a}]

Drain ==
  /\ main.pc = "drain"
  /\ \E a \in main.todo, ok \in BOOLEAN : DrainStep(a, ok)
  /\ UNCHANGED <<pc, req, setup, commands, output_buf, out, executed,
                 device_sent, nev, lock, devices, conv, client, call>>

\* line 96: the iteration is over and the guard is dropped
DrainUnlock ==
  /\ main.pc = "drain"
  /\ main.todo = {}
  /\ lock' = 0
  /\ main' = [main EXCEPT !.pc = "unlink"]
  /\ UNCHANGED <<pc, req, setup, commands, output_buf, out, executed,
                 device_sent, nev, devices, conv, client, call>>

\* line 97-98: remove_file(SOCKET_PATH), and main returns
Unlink ==
  /\ main.pc = "unlink"
  /\ main' = [main EXCEPT !.pc = "exited", !.exit = 0, !.socket = "absent"]
  /\ UNCHANGED <<pc, req, setup, commands, output_buf, out, executed,
                 device_sent, nev, lock, devices, conv, client, call>>

\* the daemon process before main runs: the socket path is free, or a file
\* is there already
InitMain ==
  /\ InitDaemon
  /\ conv = NoConv
  /\ client = NoClient
  /\ call = NoCall
  /\ main \in {[pc |-> "start", exit |-> Running, socket |-> s, todo |-> {},
                 drained |-> {}] : s \in {"absent", "stale"}}

NextMain ==
  \/ Start
  \/ Interrupt
  \/ IdleTimeout
  \/ DrainLock
  \/ Drain
  \/ DrainUnlock
  \/ Unlink
  \/ \E t \in Tasks : Accept(t) \/ ReadFrame(t, MainFlags) \/ Handler(t)

SpecMain == InitMain /\ [][NextMain]_vars

\* the runtime runs main and the spawned tasks as long as one of them can
\* take a step; a signal or the expiry of TIMEOUT_SECS ends an idle accept
SpecMainFair == SpecMain /\ WF_vars(NextMain)

(***************************************************************************)
(* The conversions of the wire format, each applied once to an input drawn *)
(* by the initial state.                                                   *)
(***************************************************************************)
\* inputs of the request framing
WireAddrs ==
  {HUE_BAR_1_ADDR, HUE_BAR_2_ADDR, Zeros(ADDR_LEN), [i \in 1..ADDR_LEN |-> U8_MAX]}
WireFlags == {0, 1, 255, 256, 513, 4660, 32768, 65535}
WireModes == {GET, SET, 2, U8_MAX}
WireData == {DataZero, DataHue, DataSet, DataBad, [i \in 1..DATA_LEN |-> U8_MAX]}
\* every byte
Bytes == 0..U8_MAX

FrameInputs ==
  {[op |-> "frame",
    arg |-> [addr |-> a, flags |-> f, mode |-> m, data |-> d],
    res |-> <<>>, applied |-> FALSE] :
     a \in WireAddrs, f \in WireFlags, m \in WireModes, d \in WireData}
CodeInputs ==
  {[op |-> "code", arg |-> c, res |-> <<>>, applied |-> FALSE] : c \in OutputCode}
ByteInputs ==
  {[op |-> "byte", arg |-> b, res |-> <<>>, applied |-> FALSE] : b \in Bytes}

\* inputs of the address conversions: addresses, and integers below 2^48
\* given by their 24-bit halves
Halves == {0, 1, 255, 256, 65536, 12870144, 15258858, 16777215}
AddrInputs ==
  {[op |-> "addr", arg |-> a, res |-> <<>>, applied |-> FALSE] : a \in WireAddrs}
UintInputs ==
  {[op |-> "uint", arg |-> [hi |-> h, lo |-> l], res |-> <<>>, applied |-> FALSE] :
     h \in Halves, l \in Halves}

\* device names of every length up to MaxNameLen, each byte telling its
\* position in the name
NameOfLen(n) == [i \in 1..n |-> 64 + i]
NameInputs ==
  {[op |-> "name", arg |-> NameOfLen(n), res |-> <<>>, applied |-> FALSE] :
     n \in 0..MaxNameLen}

\* the u8 values set_brightness can be called with
BrightnessInputs ==
  {[op |-> "brightness", arg |-> v, res |-> <<>>, applied |-> FALSE] : v \in Bytes}

\* RGB colours: every channel at 0, 64, 128, 192 or 255
Channels == {0, 64, 128, 192, 255}
ColorInputs ==
  {[op |-> "color", arg |-> <<r, g, b>>, res |-> <<>>, applied |-> FALSE] :
     r \in Channels, g \in Channels, b \in Channels}

\* queries of every length up to MaxNameLen
QueryInputs ==
  {[op |-> "query", arg |-> NameOfLen(n), res |-> <<>>, applied |-> FALSE] :
     n \in 0..MaxNameLen}

\* the percentages the binding layer is called with
PctInputs ==
  {[op |-> "pct", arg |-> p, res |-> <<>>, applied |-> FALSE] : p \in 0..100}

\* the files an earlier flush left at a path that had no file
EarlierFiles ==
  UNION {{flush(NoFile, to_string(serialize_data(e), o)) :
            o \in Orders(DOMAIN serialize_data(e))} : e \in DataMaps}

\* the file before the flush: absent, or the text of an earlier flush on
\* an absent file; and the map that is flushed
StoreInputs ==
  {[op |-> "store", arg |-> [file |-> f, data |-> d], res |-> <<>>,
    applied |-> FALSE] :
     f \in {NoFile} \cup EarlierFiles, d \in DataMaps}

InitConv ==
  /\ InitDaemon
  /\ client = NoClient
  /\ main = Serving
  /\ call = NoCall
  /\ \/ conv \in FrameInputs
     \/ conv \in CodeInputs
     \/ conv \in ByteInputs
     \/ conv \in AddrInputs
     \/ conv \in UintInputs
     \/ conv \in NameInputs
     \/ conv \in BrightnessInputs
     \/ conv \in ColorInputs
     \/ conv \in QueryInputs
     \/ conv \in PctInputs
     \/ conv \in StoreInputs

DaemonUnchanged ==
  UNCHANGED <<pc, req, setup, commands, output_buf, out, executed,
              device_sent, nev, lock, devices>>

\* the client builds the request frame, the daemon decodes it
ApplyFrame ==
  /\ conv.op = "frame"
  /\ ~conv.applied
  /\ LET buf == RequestFrame(conv.arg.addr, conv.arg.flags, conv.arg.mode,
                             conv.arg.data)
     IN  conv' = [conv EXCEPT !.applied = TRUE,
                              !.res = [frame |-> buf,
                                       addr |-> DecodeAddr(buf),
                                       flags |-> DecodeFlags(buf),
                                       set |-> DecodeSet(buf),
                                       data |-> DecodeData(buf)]]
  /\ DaemonUnchanged
  /\ UNCHANGED <<client, main, call>>

\* u8::from(code), then OutputCode::from of that byte
ApplyCode ==
  /\ conv.op = "code"
  /\ ~conv.applied
  /\ conv' = [conv EXCEPT !.applied = TRUE,
                          !.res = [byte |-> u8_from_OutputCode(conv.arg),
                                   back |-> OutputCode_from_u8(
                                              u8_from_OutputCode(conv.arg))]]
  /\ DaemonUnchanged
  /\ UNCHANGED <<client, main, call>>

\* OutputCode::from(byte)
ApplyByte ==
  /\ conv.op = "byte"
  /\ ~conv.applied
  /\ conv' = [conv EXCEPT !.applied = TRUE,
                          !.res = OutputCode_from_u8(conv.arg)]
  /\ DaemonUnchanged
  /\ UNCHANGED <<client, main, call>>

\* addr_to_uint(addr), then uint_to_addr of that integer
ApplyAddr ==
  /\ conv.op = "addr"
  /\ ~conv.applied
  /\ conv' = [conv EXCEPT !.applied = TRUE,
                          !.res = [uint |-> addr_to_uint(conv.arg),
                                   back |-> uint_to_addr(addr_to_uint(conv.arg))]]
  /\ DaemonUnchanged
  /\ UNCHANGED <<client, main, call>>

\* uint_to_addr(n), then addr_to_uint of that address
ApplyUint ==
  /\ conv.op = "uint"
  /\ ~conv.applied
  /\ conv' = [conv EXCEPT !.applied = TRUE,
                          !.res = [addr |-> uint_to_addr(conv.arg),
                                   back |-> addr_to_uint(uint_to_addr(conv.arg))]]
  /\ DaemonUnchanged
  /\ UNCHANGED <<client, main, call>>

\* the Name arm of process_conn on the buffer of a request that has run no
\* other command
ApplyName ==
  /\ conv.op = "name"
  /\ ~conv.applied
  /\ conv' = [conv EXCEPT !.applied = TRUE,
                          !.res = NamePayload(InitialOutputBuf, conv.arg)]
  /\ DaemonUnchanged
  /\ UNCHANGED <<client, main, call>>

\* set_brightness: buf[1] of the request data
ApplyBrightness ==
  /\ conv.op = "brightness"
  /\ ~conv.applied
  /\ conv' = [conv EXCEPT !.applied = TRUE, !.res = set_brightness(conv.arg)]
  /\ DaemonUnchanged
  /\ UNCHANGED <<client, main, call>>

\* Xy::from(rgb), then set_colors with its x and y
ApplyColor ==
  /\ conv.op = "color"
  /\ ~conv.applied
  /\ conv' = [conv EXCEPT !.applied = TRUE,
                          !.res = [pre |-> XyBeforeGamut(conv.arg),
                                   xy |-> Xy_from_Rgb(conv.arg),
                                   data |-> set_colors(Xy_from_Rgb(conv.arg))]]
  /\ DaemonUnchanged
  /\ UNCHANGED <<client, main, call>>

\* search_by_name builds its request
ApplyQuery ==
  /\ conv.op = "query"
  /\ ~conv.applied
  /\ LET r == search_by_name_buf(conv.arg)
     IN  conv' = [conv EXCEPT
                    !.applied = TRUE,
                    !.res = [panic |-> r.panic,
                             frame |-> IF r.panic THEN <<>>
                                       ELSE search_by_name_frame(r.buf)]]
  /\ DaemonUnchanged
  /\ UNCHANGED <<client, main, call>>

\* set_brightness of the binding layer sends a byte, the daemon writes it
\* to the lamp and reads it back unchanged, get_brightness converts it
ApplyPct ==
  /\ conv.op = "pct"
  /\ ~conv.applied
  /\ LET byte == ffi_set_brightness(conv.arg)
     IN  conv' = [conv EXCEPT !.applied = TRUE,
                              !.res = [byte |-> byte,
                                       pct |-> ffi_get_brightness(byte)]]
  /\ DaemonUnchanged
  /\ UNCHANGED <<client, main, call>>

\* flush() of a Storage holding conv.arg.data, then get_devices() of a
\* fresh Storage on the same path
ApplyStore ==
  /\ conv.op = "store"
  /\ ~conv.applied
  /\ \E o \in Orders(DOMAIN serialize_data(conv.arg.data)) :
       LET text == to_string(serialize_data(conv.arg.data), o)
           file == flush(conv.arg.file, text)
       IN  conv' = [conv EXCEPT !.applied = TRUE,
                                !.res = [file |-> file,
                                         loaded |-> get_devices(file)]]
  /\ DaemonUnchanged
  /\ UNCHANGED <<client, main, call>>

NextConv ==
  \/ ApplyStore
  \/ ApplyQuery
  \/ ApplyPct
  \/ ApplyColor
  \/ ApplyBrightness
  \/ ApplyName
  \/ ApplyFrame
  \/ ApplyCode
  \/ ApplyByte
  \/ ApplyAddr
  \/ ApplyUint

SpecConv == InitConv /\ [][NextConv]_vars

(***************************************************************************)
(* The client library's search_by_name (device.rs): a stream unfolded over *)
(* one connection.  The first pull sends the SEARCH_NAME request and reads *)
(* a frame, every later pull reads a frame.                                *)
(***************************************************************************)
\* names of the devices the daemon found: "Hue", no name, the 14 bytes of
\* "Hue lightstrip", and 12 ASCII bytes followed by a two-byte character
DeviceNames ==
  { <<72, 117, 101>>,
    <<>>,
    <<72, 117, 101, 32, 108, 105, 103, 104, 116, 115, 116, 114, 105, 112>>,
    <<72, 117, 101, 32, 98, 97, 114, 32, 99, 97, 102, 101, 195, 169>> }

\* the Streaming frames process_conn writes for them
StreamFrames == {StreamingFrame(a, n) : a \in Addrs, n \in DeviceNames}

\* what the daemon writes on a search connection before it closes it: k
\* Streaming frames and DeviceNotFound (k = 0) or StreamEOF, or, when the
\* handler unwinds, the Streaming frames alone
ServerStreams ==
  UNION {{s \o e : s \in [1..k -> StreamFrames],
                   e \in {<<>>, <<CodeFrame(IF k = 0 THEN OutputCode_DeviceNotFound
                                            ELSE OutputCode_StreamEOF)>>}} :
         k \in 0..MaxFrames}

\* what read_exact gave when the connection was closed
ClosedRead == <<>>

\* receive_packet_from_daemon on a connection with the frames wire to come;
\* read_exact is an Err when the connection ends before 20 bytes came
receive_packet_from_daemon(wire) ==
  IF wire = <<>> \/ Len(Head(wire)) < OUTPUT_LEN
  THEN [code |-> "Failure", output |-> Zeros(OUTPUT_LEN - 1)]
  ELSE [code |-> OutputCode_from_u8(Head(wire)[1]),
        output |-> SubSeq(Head(wire), 2, OUTPUT_LEN)]

\* the bytes of s before its first NUL
RECURSIVE UntilNul(_)
UntilNul(s) ==
  IF s = <<>> \/ Head(s) = 0 THEN <<>> ELSE <<Head(s)>> \o UntilNul(Tail(s))

\* the closure get_found_device; ok is FALSE when String::from_utf8(..)
\* is an Err, which the unwrap turns into a panic
get_found_device(device_buf) ==
  LET name == UntilNul(SubSeq(device_buf, ADDR_LEN + 1, Len(device_buf)))
  IN  [address |-> SubSeq(device_buf, 1, ADDR_LEN),
       name |-> name,
       ok |-> from_utf8_ok(name)]

\* one pull of the unfold closure; ends tells whether the code read ends the
\* stream.  The filter drops a device whose address is all zeros.
SearchPull(r, ends) ==
  LET d == get_found_device(r.output)
  IN  client' =
        [client EXCEPT
           !.wire = IF @ = <<>> THEN @ ELSE Tail(@),
           !.got = Append(@, IF client.wire = <<>> THEN ClosedRead
                             ELSE Head(client.wire)),
           !.pc = IF r.code = "panic" THEN "panicked"
                  ELSE IF ends THEN "ended"
                  ELSE IF d.ok THEN "streaming" ELSE "panicked",
           !.yielded = IF r.code # "panic" /\ ~ends /\ d.ok
                          /\ d.address # Zeros(ADDR_LEN)
                       THEN Append(@, [address |-> d.address, name |-> d.name])
                       ELSE @]

\* is_stream_initiated = false: _send_packet_to_daemon, then None unless the
\* code is Streaming
SearchFirst ==
  /\ client.pc = "init"
  /\ LET r == receive_packet_from_daemon(client.wire)
     IN  SearchPull(r, r.code # "Streaming")
  /\ DaemonUnchanged
  /\ UNCHANGED <<conv, main, call>>

\* is_stream_initiated = true: receive_packet_from_daemon, then None on
\* Failure or StreamEOF
SearchNext ==
  /\ client.pc = "streaming"
  /\ LET r == receive_packet_from_daemon(client.wire)
     IN  SearchPull(r, r.code \in {"Failure", "StreamEOF"})
  /\ DaemonUnchanged
  /\ UNCHANGED <<conv, main, call>>

InitClient ==
  /\ InitDaemon
  /\ conv = NoConv
  /\ main = Serving
  /\ call = NoCall
  /\ client \in {[NoClient EXCEPT !.pc = "init", !.wire = w] :
                   w \in ServerStreams}

NextClient == SearchFirst \/ SearchNext

SpecClient == InitClient /\ [][NextClient]_vars

(***************************************************************************)
(* send_packet_to_daemon (device.rs 280-337): the request is written on a  *)
(* fresh connection, then one response frame is read.                      *)
(***************************************************************************)
\* frames process_conn writes in answer to a device request: the bare
\* codes, a brightness, a name
ReplyFrames ==
  { CodeFrame(OutputCode_Success),
    CodeFrame(OutputCode_Failure),
    CodeFrame(OutputCode_DeviceNotFound),
    [CodeFrame(OutputCode_Success) EXCEPT ![2] = 127],
    NamePayload(CodeFrame(OutputCode_Success), AdvertisedName(HUE_BAR_1_ADDR)) }

\* what the daemon's end writes before it is closed: nothing (the handler
\* returned or was dropped without a write), a frame, or the first bytes
\* of one (the process ended inside write_all)
Replies ==
  {<<>>} \cup {<<SubSeq(f, 1, k)>> : f \in ReplyFrames, k \in 1..OUTPUT_LEN}

\* the daemon's end is closed before the request is written: the process
\* exits, or its runtime is dropped, between the client's connect and its
\* write
PeerCloses ==
  /\ client.pc = "write"
  /\ ~client.closed
  /\ client' = [client EXCEPT !.closed = TRUE, !.wire = <<>>]
  /\ DaemonUnchanged
  /\ UNCHANGED <<conv, main, call>>

\* lines 314-315: stream.write_all(..).await.unwrap() and
\* stream.flush().await.unwrap(); written is FALSE when the write is an Err
SendWriteStep(written) ==
  client' = [client EXCEPT !.pc = IF written THEN "read" ELSE "panicked"]

SendWrite ==
  /\ client.pc = "write"
  /\ SendWriteStep(~client.closed)
  /\ DaemonUnchanged
  /\ UNCHANGED <<conv, main, call>>

\* line 317: receive_packet_from_daemon, whose result is returned
SendRead ==
  /\ client.pc = "read"
  /\ LET r == receive_packet_from_daemon(client.wire)
     IN  client' =
           [client EXCEPT
              !.wire = <<>>,
              !.got = Append(@, IF client.wire = <<>> THEN ClosedRead
                                ELSE Head(client.wire)),
              !.pc = IF r.code = "panic" THEN "panicked" ELSE "returned",
              !.ret = IF r.code = "panic" THEN @ ELSE <<r>>]
  /\ DaemonUnchanged
  /\ UNCHANGED <<conv, main, call>>

InitSend ==
  /\ InitDaemon
  /\ conv = NoConv
  /\ main = Serving
  /\ call = NoCall
  /\ client \in {[NoClient EXCEPT !.pc = "write", !.wire = w] : w \in Replies}

NextSend == PeerCloses \/ SendWrite \/ SendRead

SpecSend == InitSend /\ [][NextSend]_vars

(***************************************************************************)
(* try_connect and try_pair (bluetooth.rs 215-242, 275-322), one platform  *)
(* call per step.  A query (is_connected, is_paired, is_trusted) answers   *)
(* "true", "false" or "err"; an operation (connect, pair, set_trusted)     *)
(* answers "ok" or "err".  log keeps the calls made, with their answers.   *)
(***************************************************************************)
QueryResults == {"true", "false", "err"}
OpResults == {"ok", "err"}

Logged(op, r) == Append(call.log, <<op, r>>)
\* the function returns ret after the platform call op answered r
Return(op, r, ret) ==
  call' = [call EXCEPT !.pc = "returned", !.ret = ret, !.log = Logged(op, r)]
\* the function goes on at pc with its counter at retries
Goto(op, r, pc_, retries) ==
  call' = [call EXCEPT !.pc = pc_, !.retries = retries, !.log = Logged(op, r)]

CallOnly ==
  /\ DaemonUnchanged
  /\ UNCHANGED <<conv, client, main>>

\* try_connect, lines 218-231: the connectedness check at the head of the
\* loop, `?` on its error, and the test of retries
TryConnectCheck ==
  /\ call.fn = "try_connect"
  /\ call.pc = "is_connected"
  /\ \E r \in QueryResults :
       CASE r = "err" -> Return("is_connected", r, "Err")
         [] r = "true" -> Return("is_connected", r, "Ok")
         [] r = "false" ->
              IF call.retries <= 0
              THEN Return("is_connected", r, "Err(after 3 attempts)")
              ELSE Goto("is_connected", r, "connect", call.retries)
  /\ CallOnly

\* lines 233-237: connect(), whose error is printed, and retries -= 1
TryConnectAttempt ==
  /\ call.fn = "try_connect"
  /\ call.pc = "connect"
  /\ \E r \in OpResults : Goto("connect", r, "is_connected", call.retries - 1)
  /\ CallOnly

\* try_pair, lines 279-281
TryPairIsConnected ==
  /\ call.fn = "try_pair"
  /\ call.pc = "is_connected"
  /\ \E r \in QueryResults :
       CASE r = "err" -> Return("is_connected", r, "Err")
         [] r = "true" -> Return("is_connected", r, "Ok")
         [] r = "false" -> Goto("is_connected", r, "is_paired", call.retries)
  /\ CallOnly

\* line 301: retries = 2
TrustRetries == 2

\* lines 283-293: the head of the pair loop
TryPairIsPaired ==
  /\ call.fn = "try_pair"
  /\ call.pc = "is_paired"
  /\ \E r \in QueryResults :
       CASE r = "err" -> Return("is_paired", r, "Err")
         [] r = "true" -> Goto("is_paired", r, "is_trusted", TrustRetries)
         [] r = "false" ->
              IF call.retries <= 0
              THEN Return("is_paired", r, "Err(pair after 3 attempts)")
              ELSE Goto("is_paired", r, "pair", call.retries)
  /\ CallOnly

\* lines 294-298: pair(); Ok leaves the loop, Err costs one of the retries
TryPairPair ==
  /\ call.fn = "try_pair"
  /\ call.pc = "pair"
  /\ \E r \in OpResults :
       IF r = "ok"
       THEN Goto("pair", r, "is_trusted", TrustRetries)
       ELSE Goto("pair", r, "is_paired", call.retries - 1)
  /\ CallOnly

\* lines 303-313: the head of the trust loop
TryPairIsTrusted ==
  /\ call.fn = "try_pair"
  /\ call.pc = "is_trusted"
  /\ \E r \in QueryResults :
       CASE r = "err" -> Return("is_trusted", r, "Err")
         [] r = "true" -> Return("is_trusted", r, "Ok")
         [] r = "false" ->
              IF call.retries <= 0
              THEN Return("is_trusted", r, "Err(trust after 3 attempts)")
              ELSE Goto("is_trusted", r, "set_trusted", call.retries)
  /\ CallOnly

\* lines 314-318: set_trusted(true); Ok leaves the loop and try_pair
\* returns Ok, Err costs one of the retries
TryPairTrust ==
  /\ call.fn = "try_pair"
  /\ call.pc = "set_trusted"
  /\ \E r \in OpResults :
       IF r = "ok"
       THEN Return("set_trusted", r, "Ok")
       ELSE Goto("set_trusted", r, "is_trusted", call.retries - 1)
  /\ CallOnly

\* a call of either function begins: retries = 3
InitCall ==
  /\ InitDaemon
  /\ conv = NoConv
  /\ client = NoClient
  /\ main = Serving
  /\ call \in {[fn |-> f, pc |-> "is_connected", retries |-> 3, log |-> <<>>,
                ret |-> "none"] : f \in {"try_connect", "try_pair"}}

NextCall ==
  \/ TryConnectCheck
  \/ TryConnectAttempt
  \/ TryPairIsConnected
  \/ TryPairIsPaired
  \/ TryPairPair
  \/ TryPairIsTrusted
  \/ TryPairTrust

SpecCall == InitCall /\ [][NextCall]_vars

(***************************************************************************)
(* Vocabulary of the properties.                                           *)
(***************************************************************************)
\* a complete request frame was read on the connection
FrameRead(t) == req[t] # NoReq
\* the handler returned or unwound: the connection is closed
Closed(t) == pc[t] \in {"done", "panicked"}
\* the request selects SEARCH_NAME (bit 9 of the wire format)
IsSearch(t) == FrameRead(t) /\ (req[t].flags \div masks_SEARCH_NAME) % 2 = 1
\* the code byte of a frame
CodeOf(frame) == frame[1]
\* the address bytes of a Streaming frame
AddrOf(frame) == SubSeq(frame, 2, ADDR_LEN + 1)
\* the handler is suspended in an operation it runs with the guard held
InLockedPhase(t) == pc[t] \in {"discover", "isconn", "pair", "connect", "services"}
\* the handler has a pair, connect, disconnect or GATT operation on its
\* device in progress
DeviceOpInProgress(t) ==
  \/ pc[t] \in {"pair", "connect", "prio"}
  \/ pc[t] = "loop" /\ commands[t] # <<>>

IsPrefix(p, s) == Len(p) <= Len(s) /\ \A i \in 1..Len(p) : p[i] = s[i]

\* the order the specification gives for the nine device commands, with the
\* wire bit of each
CanonicalOrder ==
  << <<"Connect", masks_CONNECT>>, <<"PairAndTrust", masks_PAIR>>,
     <<"Power", masks_POWER>>, <<"ColorRgb", masks_COLOR_RGB>>,
     <<"ColorHex", masks_COLOR_HEX>>, <<"ColorXy", masks_COLOR_XY>>,
     <<"Brightness", masks_BRIGHTNESS>>, <<"Disconnect", masks_DISCONNECT>>,
     <<"Name", masks_NAME>> >>

RECURSIVE SelectedFrom(_, _)
SelectedFrom(order, flags) ==
  IF order = <<>> THEN <<>>
  ELSE (IF (flags \div Head(order)[2]) % 2 = 1 THEN <<Head(order)[1]>> ELSE <<>>)
       \o SelectedFrom(Tail(order), flags)

\* the commands a flags value selects, in canonical order
Selected(flags) == SelectedFrom(CanonicalOrder, flags)

\* the commands the execution phase has run, in the order it ran them
ExecutedCmds(t) == [i \in 1..Len(executed[t]) |-> executed[t][i].cmd]

(***************************************************************************)
(* C1: every connection on which a complete request frame was read has at  *)
(* least one response frame written by the time it is closed.              *)
(***************************************************************************)
C1_EveryRequestAnswered ==
  \A t \in Tasks : (Closed(t) /\ FrameRead(t)) => Len(out[t]) >= 1

(***************************************************************************)
(* C2: the response code of a request that executed commands is Failure    *)
(* if at least one executed command failed, and Success only if all        *)
(* succeeded.                                                              *)
(***************************************************************************)
C2_WorstCodeReported ==
  \A t \in Tasks :
    (pc[t] = "done" /\ executed[t] # <<>>) =>
      /\ Len(out[t]) = 1
      /\ CodeOf(out[t][1]) =
           IF \E i \in 1..Len(executed[t]) :
                executed[t][i].value = OutputCode_Failure
           THEN OutputCode_Failure ELSE OutputCode_Success

(***************************************************************************)
(* C3: a failing try_pair, try_connect or set_services during the Ready    *)
(* setup removes the entry from the registry and answers the client with   *)
(* one Failure frame.                                                      *)
(***************************************************************************)
C3_SetupFailureEvictsAndReports ==
  [][\A t \in Tasks :
       (pc[t] \in {"pair", "connect", "services"} /\ pc'[t] = "done") =>
         /\ ~devices'[req[t].addr].present
         /\ out'[t] = <<CodeFrame(OutputCode_Failure)>>]_vars

(***************************************************************************)
(* C4: a request with no command bit set, once its device is Ready, is     *)
(* answered with exactly one frame: code Success, 19 zero payload bytes.   *)
(***************************************************************************)
C4_NoOpAnsweredSuccess ==
  [][\A t \in Tasks :
       (pc[t] = "loop" /\ pc'[t] = "done" /\ req[t].flags = 0) =>
         out'[t] = <<CodeFrame(OutputCode_Success)>>]_vars

(***************************************************************************)
(* C5: no handler holds the registry mutex while it awaits BLE I/O, so a   *)
(* handler waiting for the mutex is never waiting behind an operation in   *)
(* progress for a different address.                                       *)
(***************************************************************************)
C5_LockNotHeldAcrossBleIO ==
  /\ \A t \in Tasks : lock = t => ~InLockedPhase(t)
  /\ \A t, u \in Tasks :
       ~(/\ t # u
         /\ lock = t /\ InLockedPhase(t)
         /\ pc[u] = "lock"
         /\ req[u].addr # req[t].addr)

(***************************************************************************)
(* C6 as stated: two handlers never have BLE operations in progress on the *)
(* same address at the same time.                                          *)
(***************************************************************************)
C6_PerDeviceSerialized ==
  \A t, u \in Tasks :
    (t # u /\ DeviceOpInProgress(t) /\ DeviceOpInProgress(u)) =>
      req[t].addr # req[u].addr

(***************************************************************************)
(* C6 as amended: the operations run with the guard held (discovery, the   *)
(* CONNECT-only query, pair, connect and service enumeration of the Ready  *)
(* setup) are never in progress in two handlers at the same time, and the  *)
(* handler in them is the one holding the guard.                           *)
(***************************************************************************)
C6_LockedPhaseSerialized ==
  /\ \A t, u \in Tasks : (InLockedPhase(t) /\ InLockedPhase(u)) => t = u
  /\ \A t \in Tasks : InLockedPhase(t) => lock = t

\* one handler is in the Ready setup of an address while another handler,
\* for the same address, waits for the mutex
C6_Witness ==
  \E t, u \in Tasks :
    /\ t # u
    /\ pc[t] \in {"pair", "connect", "services"}
    /\ pc[u] = "lock"
    /\ req[u].addr = req[t].addr

(***************************************************************************)
(* C7: the execution phase runs the selected commands in the canonical     *)
(* order CONNECT, PAIR, POWER, COLOR_RGB, COLOR_HEX, COLOR_XY, BRIGHTNESS, *)
(* DISCONNECT, NAME: what has been run is always a prefix of the selected  *)
(* commands in that order (none twice, none unselected), and when the      *)
(* phase has gone through the vector it has run each selected command      *)
(* exactly once.                                                           *)
(***************************************************************************)
C7_CanonicalOrder ==
  \A t \in Tasks :
    /\ IsPrefix(ExecutedCmds(t), Selected(req[t].flags))
    /\ (pc[t] = "loop" /\ commands[t] = <<>>) =>
         ExecutedCmds(t) = Selected(req[t].flags)

\* a request selecting CONNECT, DISCONNECT, PAIR and NAME has run all four
C7_Witness ==
  \E t \in Tasks :
    /\ pc[t] = "done"
    /\ req[t].flags = masks_CONNECT + masks_DISCONNECT + masks_PAIR + masks_NAME
    /\ ExecutedCmds(t) = <<"Connect", "PairAndTrust", "Disconnect", "Name">>
    /\ Len(out[t]) = 1

(***************************************************************************)
(* C8: the reply to a SEARCH_NAME request is one or more Streaming frames  *)
(* followed by exactly one StreamEOF frame, or exactly one DeviceNotFound  *)
(* frame.                                                                  *)
(***************************************************************************)
SearchReplyShape(s) ==
  \/ s = <<CodeFrame(OutputCode_DeviceNotFound)>>
  \/ /\ Len(s) >= 2
     /\ s[Len(s)] = CodeFrame(OutputCode_StreamEOF)
     /\ \A i \in 1..(Len(s) - 1) : CodeOf(s[i]) = OutputCode_Streaming

C8_SearchReplyWellFormed ==
  \A t \in Tasks : (Closed(t) /\ IsSearch(t)) => SearchReplyShape(out[t])

(***************************************************************************)
(* C9: every SEARCH_NAME request receives its terminating frame: when the  *)
(* handler is over, the last frame written is StreamEOF or DeviceNotFound. *)
(***************************************************************************)
C9_SearchTerminated ==
  \A t \in Tasks :
    (Closed(t) /\ IsSearch(t)) =>
      /\ out[t] # <<>>
      /\ CodeOf(out[t][Len(out[t])]) \in
           {OutputCode_StreamEOF, OutputCode_DeviceNotFound}

(***************************************************************************)
(* C10: no two Streaming frames of one reply carry the same address.       *)
(***************************************************************************)
C10_StreamAddressesUnique ==
  \A t \in Tasks :
    \A i, j \in 1..Len(out[t]) :
      (/\ i < j
       /\ CodeOf(out[t][i]) = OutputCode_Streaming
       /\ CodeOf(out[t][j]) = OutputCode_Streaming)
      => AddrOf(out[t][i]) # AddrOf(out[t][j])

(***************************************************************************)
(* C11: when the lookup misses and get_device does not produce the device  *)
(* (timeout, adapter error, event stream ended without the address), the   *)
(* handler writes exactly one frame, DeviceNotFound for a timeout or a     *)
(* device not found and Failure for an adapter error, returns, and the     *)
(* registry is unchanged: no entry exists for the address.                 *)
(***************************************************************************)
C11_MissAnsweredOnceNoInsert ==
  [][\A t \in Tasks : \A r \in DiscoverResults \ {"found"} :
       (pc[t] = "discover" /\ DiscoverStep(t, r)) =>
         /\ out'[t] = <<CodeFrame(IF r = "err" THEN OutputCode_Failure
                                  ELSE OutputCode_DeviceNotFound)>>
         /\ pc'[t] = "done"
         /\ devices' = devices
         /\ ~devices'[req[t].addr].present]_vars

\* one handler was answered DeviceNotFound and another Failure by their
\* lookups, and the registry holds no entry
C11_Witness ==
  \E t, u \in Tasks :
    /\ pc[t] = "done" /\ FrameRead(t) /\ ~IsSearch(t)
    /\ pc[u] = "done" /\ FrameRead(u) /\ ~IsSearch(u)
    /\ out[t] = <<CodeFrame(OutputCode_DeviceNotFound)>>
    /\ out[u] = <<CodeFrame(OutputCode_Failure)>>
    /\ \A a \in Addrs : devices[a] = NoEntry


\* the request selects CONNECT and nothing else, with mode GET
OnlyConnectGet(t) ==
  /\ FrameRead(t)
  /\ ~IsSearch(t)
  /\ Selected(req[t].flags) = <<"Connect">>
  /\ ~req[t].set

\* the frame of the CONNECT-only query for each result of is_device_connected
ConnectQueryFrame(r) ==
  IF r = "err" THEN CodeFrame(OutputCode_Failure)
  ELSE [CodeFrame(OutputCode_Success) EXCEPT ![2] = IF r = "true" THEN 1 ELSE 0]

(***************************************************************************)
(* C12: a request whose only command is CONNECT with mode GET never runs   *)
(* try_pair, try_connect, set_services or a command of the execution       *)
(* phase; once its entry exists it is answered with one frame, Success     *)
(* with payload[0] the is_connected flag or Failure when the query errs,   *)
(* and the registry (the entry's GATT map included) is left as it was.     *)
(***************************************************************************)
C12_ConnectQueryShortCircuit ==
  [][\A t \in Tasks :
       /\ OnlyConnectGet(t)' =>
            /\ pc'[t] \notin {"pair", "connect", "services", "prio", "loop"}
            /\ executed'[t] = <<>>
       /\ (OnlyConnectGet(t) /\ pc[t] \in {"lock", "discover"} /\ pc'[t] # pc[t]
             /\ devices'[req[t].addr].present) => pc'[t] = "isconn"
       /\ \A r \in IsConnectedResults :
            (pc[t] = "isconn" /\ IsConnectedStep(t, r)) =>
              /\ OnlyConnectGet(t)
              /\ out'[t] = <<ConnectQueryFrame(r)>>
              /\ pc'[t] = "done"
              /\ devices' = devices]_vars

\* a CONNECT-only GET request was answered "connected" while its entry has
\* no GATT map
C12_Witness ==
  \E t \in Tasks :
    /\ pc[t] = "done"
    /\ OnlyConnectGet(t)
    /\ out[t] = <<ConnectQueryFrame("true")>>
    /\ devices[req[t].addr] = NewEntry


\* what a GATT command can do when its read or write came back with r
GattOutcomesOn(cmd, set, buf, r) ==
  IF set THEN {SetOutcome(r, buf)} ELSE ReadOutcome(r, buf, ReadWrites(cmd, buf))

(***************************************************************************)
(* C13: a GET or SET command whose characteristic is absent from the       *)
(* resolved GATT map, or whose GATT read or write returns an error, has    *)
(* the outcome Failure, and the registry keeps the device's entry.         *)
(***************************************************************************)
C13_GattFailureIsFailure ==
  [][\A t \in Tasks :
       (pc[t] = "loop" /\ commands[t] # <<>> /\ Head(commands[t]) \in GattCommands) =>
         \A r \in {"absent", "err"} :
           \A o \in GattOutcomesOn(Head(commands[t]), req[t].set, output_buf[t], r) :
             (RunCommand(t, Head(commands[t]), o) /\ commands'[t] = Tail(commands[t])) =>
               /\ executed'[t] = Append(executed[t],
                    [cmd |-> Head(commands[t]), value |-> OutputCode_Failure])
               /\ devices' = devices]_vars


\* the commands that fill the payload on a GET
ReadCommands == GattCommands \cup {"Name"}
\* the 19 payload bytes of a frame
PayloadOf(frame) == SubSeq(frame, 2, OUTPUT_LEN)
\* positions of the read commands in what a handler has run
ReadPositions(t) == {i \in 1..Len(executed[t]) : executed[t][i].cmd \in ReadCommands}
\* what the command at position k can do when it runs alone, on a zeroed
\* buffer, with the code it had in the request
AloneOutcomes(t, k) ==
  {o \in CommandOutcomes(executed[t][k].cmd, FALSE, req[t].addr,
                         CodeFrame(OutputCode_Success)) :
     ~o.panic /\ o.value = executed[t][k].value}
\* the command at position k may have produced no payload (a failed read,
\* a device without a name)
MayProduceNothing(t, k) ==
  \E o \in AloneOutcomes(t, k) : o.buf = CodeFrame(OutputCode_Success)

(***************************************************************************)
(* C14: when a GET request ran several read commands, the payload of its   *)
(* response is the one the last read-producing command produces when it    *)
(* runs alone on a zeroed buffer: no byte of an earlier command is left in *)
(* it.  The last read-producing command is any read command after which    *)
(* every read command may have produced nothing.                           *)
(***************************************************************************)
C14_LastReadPayloadWins ==
  \A t \in Tasks :
    (/\ pc[t] = "done"
     /\ FrameRead(t)
     /\ ~req[t].set
     /\ Cardinality(ReadPositions(t)) >= 2
     /\ Len(out[t]) = 1) =>
      \E k \in ReadPositions(t) :
        /\ \A j \in ReadPositions(t) : j > k => MayProduceNothing(t, j)
        /\ \E o \in AloneOutcomes(t, k) :
             PayloadOf(out[t][1]) = PayloadOf(o.buf)


\* a flags value the wire format forbids: a bit outside the ten command
\* bits, or SEARCH_NAME together with another command bit
IllegalFlags(flags) ==
  \/ flags \div (2 * masks_SEARCH_NAME) > 0
  \/ (flags \div masks_SEARCH_NAME) % 2 = 1 /\ flags % masks_SEARCH_NAME # 0

(***************************************************************************)
(* C15: a request with an illegal command combination or with flag bits    *)
(* outside the ten command bits starts no device operation (no discovery,  *)
(* no name search, no setup, no command) and is answered with exactly one  *)
(* Failure frame.                                                          *)
(***************************************************************************)
C15_IllegalRequestRejected ==
  \A t \in Tasks :
    (FrameRead(t) /\ IllegalFlags(req[t].flags) /\ pc[t] # "panicked") =>
      /\ pc[t] \in {"search_open", "lock", "done"}
      /\ executed[t] = <<>>
      /\ pc[t] = "done" => out[t] = <<CodeFrame(OutputCode_Failure)>>

(***************************************************************************)
(* C16: no content of a request frame makes the handler panic: with the    *)
(* Bluetooth adapter available, the handler of a SEARCH_NAME request gets  *)
(* past the decoding of its query and the opening of the discovery stream  *)
(* without a panic, whatever the data bytes.                               *)
(***************************************************************************)
C16_NoPanicOnInput ==
  [][\A t \in Tasks :
       (pc[t] = "search_open" /\ SearchOpenStep(t, TRUE)) =>
         pc'[t] # "panicked"]_vars


\* the connection of handler t closed before a complete request was read
ShortClosed(t) == pc[t] = "done" /\ ~FrameRead(t)
\* u is the next connection the accept loop will take
NextToAccept(u) == pc[u] = "idle" /\ \A v \in Tasks : v < u => pc[v] # "idle"

(***************************************************************************)
(* C17: a connection that closes before 19 bytes were read gets no         *)
(* response frame; dropping it changes neither the registry, nor the       *)
(* mutex, nor any other handler; and the accept loop still takes the next  *)
(* connection.                                                             *)
(***************************************************************************)
C17_ShortFrameDropped ==
  /\ [][\A t \in Tasks :
          (pc[t] = "read" /\ pc'[t] = "done") =>
            /\ out'[t] = <<>>
            /\ devices' = devices
            /\ lock' = lock
            /\ \A u \in Tasks : u # t => pc'[u] = pc[u] /\ out'[u] = out[u]]_vars
  /\ [](\A t, u \in Tasks :
          (ShortClosed(t) /\ NextToAccept(u)) =>
            /\ out[t] = <<>>
            /\ ENABLED Accept(u))

\* the first connection was dropped on a short frame, and the second was
\* accepted, served and answered
C17_Witness ==
  /\ ShortClosed(1)
  /\ out[1] = <<>>
  /\ pc[2] = "done"
  /\ FrameRead(2)
  /\ Len(out[2]) = 1


\* the framing conversion has been applied
Framed == conv.op = "frame" /\ conv.applied

C19_NonZeroModeIsSet ==
  Framed => (conv.res.set <=> conv.arg.mode # 0)

(***************************************************************************)
(* C20: OutputCode is encoded Success=0, Failure=1, DeviceNotFound=2,      *)
(* Streaming=3, StreamEOF=4; a code converted to u8 and back is the same   *)
(* code; two codes never share a byte; a byte in 0..4 converts to the code *)
(* it encodes, and a byte outside 0..4 converts to no code.                *)
(***************************************************************************)
C20_OutputCodeEncoding ==
  /\ (conv.op = "code" /\ conv.applied) =>
       /\ conv.res.byte =
            (CASE conv.arg = "Success" -> 0
               [] conv.arg = "Failure" -> 1
               [] conv.arg = "DeviceNotFound" -> 2
               [] conv.arg = "Streaming" -> 3
               [] conv.arg = "StreamEOF" -> 4)
       /\ conv.res.back = conv.arg
       /\ \A c \in OutputCode :
            u8_from_OutputCode(c) = conv.res.byte => c = conv.arg
  /\ (conv.op = "byte" /\ conv.applied) =>
       IF conv.arg \in 0..4
       THEN conv.res \in OutputCode /\ u8_from_OutputCode(conv.res) = conv.arg
       ELSE conv.res \notin OutputCode

\* the byte 5, the first one that encodes no code, has been converted
C20_Witness ==
  /\ conv.op = "byte"
  /\ conv.applied
  /\ conv.arg = 5
  /\ conv.res = "panic"


\* 0xE8D4EAC46200 as its two 24-bit halves, 0xE8D4EA and 0xC46200
HueBar1Uint == [hi |-> 15258858, lo |-> 12870144]

(***************************************************************************)
(* C21: uint_to_addr(addr_to_uint(a)) = a for every address a, and         *)
(* addr_to_uint(uint_to_addr(n)) = n for every integer n below 2^48; the   *)
(* first address byte is the most significant byte of the integer, and     *)
(* E8:D4:EA:C4:62:00 corresponds to 0xE8D4EAC46200.                        *)
(***************************************************************************)
C21_AddrUintRoundTrip ==
  /\ (conv.op = "addr" /\ conv.applied) =>
       /\ conv.res.back = conv.arg
       /\ conv.res.uint.hi \div 65536 = conv.arg[1]
       /\ conv.res.uint.lo % 256 = conv.arg[ADDR_LEN]
       /\ conv.arg = HUE_BAR_1_ADDR => conv.res.uint = HueBar1Uint
  /\ (conv.op = "uint" /\ conv.applied) =>
       /\ conv.res.back = conv.arg
       /\ conv.res.addr[1] = conv.arg.hi \div 65536
       /\ conv.res.addr[ADDR_LEN] = conv.arg.lo % 256
       /\ conv.arg = HueBar1Uint => conv.res.addr = HUE_BAR_1_ADDR

\* 0xE8D4EAC46200 has been converted to E8:D4:EA:C4:62:00 and back
C21_Witness ==
  /\ conv.op = "uint"
  /\ conv.applied
  /\ conv.arg = HueBar1Uint
  /\ conv.res.addr = HUE_BAR_1_ADDR
  /\ conv.res.back = HueBar1Uint


IsStreamingFrame(f) == f # ClosedRead /\ CodeOf(f) = OutputCode_Streaming
\* the device a Streaming frame announces: its address, and its name bytes
\* up to the first NUL
FoundIn(f) ==
  [address |-> AddrOf(f),
   name |-> UntilNul(SubSeq(f, ADDR_LEN + 2, OUTPUT_LEN))]
\* the k-th read of the client ended the stream: StreamEOF, a read that
\* failed, or a first frame other than Streaming
Terminating(k) ==
  LET f == client.got[k]
  IN  \/ f = ClosedRead
      \/ CodeOf(f) = OutputCode_StreamEOF
      \/ k = 1 /\ CodeOf(f) # OutputCode_Streaming

(***************************************************************************)
(* C23: search_by_name yields one FoundDevice per Streaming frame, in the  *)
(* order received; it ends when StreamEOF arrives; it yields nothing when  *)
(* the first frame is DeviceNotFound; and it reads nothing after the       *)
(* terminating frame.                                                      *)
(***************************************************************************)
C23_SearchStream ==
  client.pc # "none" =>
    LET streamed == SelectSeq(client.got, IsStreamingFrame)
    IN  /\ client.yielded = [i \in 1..Len(streamed) |-> FoundIn(streamed[i])]
        /\ \A k \in 1..Len(client.got) :
             Terminating(k) => k = Len(client.got) /\ client.pc = "ended"
        /\ (client.got # <<>>
              /\ client.got[1] = CodeFrame(OutputCode_DeviceNotFound)) =>
             client.yielded = <<>>


\* main has left its accept loop
LeftLoop == main.pc \in {"left", "drain", "unlink"} \/ main.exit = 0

C25_RefusesExistingSocket ==
  /\ [][main.pc = "start" /\ main.socket = "stale" =>
          main' = [main EXCEPT !.pc = "exited", !.exit = 2]]_vars
  /\ [](main.socket = "stale" =>
          /\ main.pc \in {"start", "exited"}
          /\ \A t \in Tasks : pc[t] = "idle" /\ out[t] = <<>>)

\* main found the socket file and has exited with code 2, the file in place
C25_Witness ==
  /\ main.pc = "exited"
  /\ main.exit = 2
  /\ main.socket = "stale"


\* set_brightness has produced the byte of a percentage
Scaled == conv.op = "brightness" /\ conv.applied /\ conv.arg <= 100

(***************************************************************************)
(* C26, as stated: the byte of a percentage pct in 0..100 is               *)
(* round(pct * 255 / 100); 0 gives 0, 50 gives 127 and 100 gives 255.      *)
(***************************************************************************)
C26_BrightnessRounded ==
  Scaled =>
    /\ 2 * (100 * conv.res - 255 * conv.arg) \in -100..100
    /\ conv.arg = 0 => conv.res = 0
    /\ conv.arg = 50 => conv.res = 127
    /\ conv.arg = 100 => conv.res = 255

(***************************************************************************)
(* C26, amended: the byte of a percentage pct in 0..100 is pct * 255 / 100 *)
(* with the fraction dropped, the greatest integer not above it; 0 gives   *)
(* 0, 50 gives 127 and 100 gives 255.                                      *)
(***************************************************************************)
C26_BrightnessTruncated ==
  Scaled =>
    /\ 100 * conv.res <= 255 * conv.arg
    /\ 100 * (conv.res + 1) > 255 * conv.arg
    /\ conv.arg = 0 => conv.res = 0
    /\ conv.arg = 50 => conv.res = 127
    /\ conv.arg = 100 => conv.res = 255

\* 50 % has been scaled to 127, below 127.5
C26_Witness == Scaled /\ conv.arg = 50 /\ conv.res = 127


\* the colour engine has converted an RGB colour
Converted == conv.op = "color" /\ conv.applied
\* two coordinates differ by at most 0.001
Near(a, b) == a - b \in -10..10

(***************************************************************************)
(* C27: for RGB (255, 0, 0) the point before the gamut test is about       *)
(* (0.6400, 0.3300); the conversion returns the Red vertex (0.6915,        *)
(* 0.3038); and the request data is 0xB12B and 0x4DCA in little-endian     *)
(* order, 0x2B 0xB1 0xCA 0x4D.                                             *)
(***************************************************************************)
C27_PureRed ==
  (Converted /\ conv.arg = <<255, 0, 0>>) =>
    /\ ~conv.res.pre.nan
    /\ Near(conv.res.pre.x, 6400) /\ Near(conv.res.pre.y, 3300)
    /\ conv.res.xy = RED
    /\ conv.res.data = <<43, 177, 202, 77>>

\* is_within_color_gamut with 0.001 of slack on each barycentric coordinate,
\* more than the fixed-point arithmetic loses on a projected point
NearlyWithinGamut(p) ==
  LET denominator == (GREEN.y - BLUE.y) * (RED.x - BLUE.x)
                       + (BLUE.x - GREEN.x) * (RED.y - BLUE.y)
      lambda1 == (GREEN.y - BLUE.y) * (p.x - BLUE.x)
                   + (BLUE.x - GREEN.x) * (p.y - BLUE.y)
      lambda2 == (BLUE.y - RED.y) * (p.x - BLUE.x)
                   + (RED.x - BLUE.x) * (p.y - BLUE.y)
      lambda3 == denominator - lambda1 - lambda2
      slack == denominator \div 1000
  IN  /\ ~p.nan
      /\ \A l \in {lambda1, lambda2, lambda3} :
           l >= -slack /\ l <= denominator + slack

(***************************************************************************)
(* C28: for every RGB input the xy point the conversion returns lies in    *)
(* the gamut triangle: is_within_color_gamut holds for it.                 *)
(***************************************************************************)
C28_AlwaysWithinGamut ==
  Converted => NearlyWithinGamut(conv.res.xy)


\* the calls of the platform operation op the function has made, and those
\* of them that returned an error
Attempts(op) == {i \in 1..Len(call.log) : call.log[i][1] = op}
Failed(op) == {i \in Attempts(op) : call.log[i][2] = "err"}
\* the last platform call and its answer
LastCall == call.log[Len(call.log)]
\* the function has returned an error
ReturnedErr == call.ret \notin {"none", "Ok"}

(***************************************************************************)
(* C29: try_connect makes at most 3 connect attempts and ends after at     *)
(* most 4 connectedness checks; it returns Ok with no attempt when the     *)
(* first check is true, and as soon as a check is true; it returns an      *)
(* error only when the check after the third attempt is false; a connect   *)
(* attempt that returns an error costs that attempt and nothing else.      *)
(***************************************************************************)
C29_TryConnectBounded ==
  call.fn = "try_connect" =>
    /\ Cardinality(Attempts("connect")) <= 3
    /\ Len(call.log) <= 7
    /\ call.retries = 3 - Cardinality(Attempts("connect"))
    /\ \A i \in 1..Len(call.log) :
         call.log[i] = <<"is_connected", "true">> =>
           i = Len(call.log) /\ call.ret = "Ok"
    /\ call.ret = "Ok" => LastCall = <<"is_connected", "true">>
    /\ ReturnedErr =>
         /\ Cardinality(Attempts("connect")) = 3
         /\ LastCall = <<"is_connected", "false">>

(***************************************************************************)
(* C30: try_pair on a device that is not connected makes at most three     *)
(* pair attempts and at most three trust attempts, ends after a bounded    *)
(* number of platform calls, and reports that pairing, or trusting, failed *)
(* only after three unsuccessful attempts of that sub-operation.           *)
(***************************************************************************)
C30_TryPairThreeEach ==
  (call.fn = "try_pair" /\ call.log # <<>>
     /\ call.log[1] = <<"is_connected", "false">>) =>
    /\ Cardinality(Attempts("pair")) <= 3
    /\ Cardinality(Attempts("set_trusted")) <= 3
    /\ Len(call.log) <= 15
    /\ call.ret = "Err(pair after 3 attempts)" =>
         Cardinality(Failed("pair")) = 3
    /\ call.ret = "Err(trust after 3 attempts)" =>
         Cardinality(Failed("set_trusted")) = 3


(***************************************************************************)
(* C31-C33: the life of a registry entry.                                  *)
(***************************************************************************)
\* the log of a setup that went through: lines 240, 248 and 256 in order
SetupDone ==
  <<[fn |-> "try_pair", ok |-> TRUE],
    [fn |-> "try_connect", ok |-> TRUE],
    [fn |-> "set_services", ok |-> TRUE]>>

\* C31: an entry whose GATT map is populated was set up by one handler of
\* its address, whose calls were try_pair, try_connect and set_services in
\* that order, each returning Ok.
C31_ServicesAfterPairConnect ==
  \A a \in Addrs :
    devices[a].services =>
      \E t \in Tasks : req[t].addr = a /\ setup[t] = SetupDone

\* an entry is Ready and its handler has answered
C31_Witness ==
  \E t \in Tasks :
    /\ pc[t] = "done"
    /\ setup[t] = SetupDone
    /\ devices[req[t].addr].services
    /\ out[t] # <<>>


\* the handlers of address a whose setup stored the GATT map
Populators(a) == {t \in Tasks : req[t].addr = a /\ setup[t] = SetupDone}

\* C32: a handler makes a setup call only on an entry whose GATT map is
\* not populated, and while it holds the registry guard; a populated map
\* stays; so at most one handler per address ever stored the map.
C32_SetupAtMostOnce ==
  /\ [][\A t \in Tasks :
          setup'[t] # setup[t] =>
            /\ lock = t
            /\ devices[req[t].addr].present
            /\ ~devices[req[t].addr].services]_vars
  /\ [][\A a \in Addrs : devices[a].services => devices'[a].services]_vars
  /\ [](\A a \in Addrs : Cardinality(Populators(a)) <= 1)

\* two requests for one address have run commands: the first set the entry
\* up, the second found it Ready and made no setup call
C32_Witness ==
  \E t, u \in Tasks :
    /\ t # u
    /\ req[t].addr = req[u].addr
    /\ setup[t] = SetupDone
    /\ setup[u] = <<>>
    /\ executed[u] # <<>>
    /\ pc[t] = "done" /\ pc[u] = "done"


\* task t took the step
Stepped(t) ==
  <<pc[t], commands[t], output_buf[t], out[t], executed[t], setup[t], nev[t]>>' #
  <<pc[t], commands[t], output_buf[t], out[t], executed[t], setup[t], nev[t]>>

\* the handler is past line 266: it runs commands on its clone
OnClone(t) == pc[t] \in {"prio", "loop"}

\* C33: every step that changes the registry (an insert, the storing of a
\* GATT map, an eviction) is taken by a handler that holds the registry
\* guard and changes only the entry of its own address; a handler that
\* does not hold the guard leaves the registry as it is, and a handler
\* running commands on its clone does not hold the guard.
C33_RegistryWrittenUnderGuard ==
  /\ [][devices' # devices =>
          \E t \in Tasks :
            /\ lock = t
            /\ Stepped(t)
            /\ \A a \in Addrs : a # req[t].addr => devices'[a] = devices[a]]_vars
  /\ [][\A t \in Tasks : Stepped(t) /\ lock # t => devices' = devices]_vars
  /\ [](\A t \in Tasks : OnClone(t) => lock # t)

\* one handler stored a GATT map, another was evicted after a failed
\* setup call
C33_Witness ==
  \E t, u \in Tasks :
    /\ setup[t] = SetupDone
    /\ setup[u] # <<>>
    /\ ~setup[u][Len(setup[u])].ok
    /\ devices[req[t].addr] = [present |-> TRUE, services |-> TRUE]
    /\ devices[req[u].addr] = NoEntry


\* the code bytes of the five OutputCode variants
WireCodes == {u8_from_OutputCode(c) : c \in OutputCode}

\* C34: the first byte of every frame the daemon has written is one of the
\* five codes 0..4, which the client's OutputCode::from decodes without
\* reaching its panic arm; the sentinel 255 of a fresh response buffer is
\* never written.
C34_WireCodesKnown ==
  \A t \in Tasks :
    \A i \in 1..Len(out[t]) :
      /\ Len(out[t][i]) = OUTPUT_LEN
      /\ CodeOf(out[t][i]) \in WireCodes
      /\ CodeOf(out[t][i]) \in 0..4
      /\ CodeOf(out[t][i]) # U8_MAX
      /\ OutputCode_from_u8(CodeOf(out[t][i])) # "panic"

\* a request that selected no command ended with the sentinel still in its
\* buffer and nothing written, while another request was answered
C34_Witness ==
  \E t, u \in Tasks :
    /\ pc[t] = "done"
    /\ output_buf[t][1] = U8_MAX
    /\ executed[t] = <<>>
    /\ req[t].addr \in Addrs
    /\ devices[req[t].addr].services
    /\ out[t] = <<>>
    /\ pc[u] = "done"
    /\ Len(out[u]) = 1
    /\ executed[u] # <<>>


(***************************************************************************)
(* C35: shutdown and the handlers still running.                           *)
(***************************************************************************)
\* the handler of connection t has read its request and has not returned
Handling(t) == pc[t] \notin {"idle", "read", "done", "panicked"}

\* C35: when the process has exited through the end of main, no handler
\* that had read its request is left unfinished.
C35_NoHandlerAbandoned ==
  (main.pc = "exited" /\ main.exit = 0) => \A t \in Tasks : ~Handling(t)


(***************************************************************************)
(* C36: a connection closed without a complete response frame.             *)
(***************************************************************************)
\* the daemon's end was closed and the client got no complete frame
ClosedUnanswered ==
  /\ client.wire = <<>>
  /\ \A i \in 1..Len(client.got) : Len(client.got[i]) < OUTPUT_LEN

\* what receive_packet_from_daemon returns on a failed read
FailureZeros == [code |-> "Failure", output |-> Zeros(OUTPUT_LEN - 1)]

\* the request was written while the daemon's end was open
RequestSent == ~client.closed

\* C36: once send_packet_to_daemon is over on a connection the daemon
\* closed without a complete frame, it has returned (Failure, zeros); it
\* did not panic.
C36_ClosedIsFailure ==
  (client.pc \in {"returned", "panicked"} /\ ClosedUnanswered) =>
    /\ client.pc = "returned"
    /\ client.ret = <<FailureZeros>>


(***************************************************************************)
(* C37: a client that connects and sends nothing.                          *)
(***************************************************************************)
\* the handler of t waits in read_exact for the rest of the request
AwaitingRequest(t) == pc[t] = "read"

\* the connection of u can take a step: be accepted, or its handler go on
CanProceed(u) == ENABLED (Accept(u) \/ ReadFrame(u, DaemonFlags) \/ Handler(u))

\* u waits at line 187 for the guard that a third handler holds, and that
\* handler can take its next step
WaitsForRunning(u, t) ==
  /\ pc[u] = "lock"
  /\ lock \in Tasks \ {u, t}
  /\ CanProceed(lock)

\* C37: while a handler waits for a request that does not come, it does
\* not hold the registry guard, and it is in no other connection's way:
\* the next connection can be accepted, and every handler that has not
\* returned can take its next step (read, lock, run, answer), or waits for
\* the guard of a handler other than the silent one that can.
C37_SilentClientHarmless ==
  \A t \in Tasks :
    AwaitingRequest(t) =>
      /\ lock # t
      /\ \A u \in Tasks \ {t} :
           /\ NextToAccept(u) => ENABLED Accept(u)
           /\ pc[u] \notin {"idle", "done", "panicked"}
                => CanProceed(u) \/ WaitsForRunning(u, t)

\* the first client has sent nothing; the second, accepted after it, had
\* its lamp set up under the guard and was answered
C37_Witness ==
  /\ AwaitingRequest(1)
  /\ pc[2] = "done"
  /\ setup[2] = SetupDone
  /\ Len(out[2]) = 1
  /\ CodeOf(out[2][1]) = OutputCode_Success


(***************************************************************************)
(* C38: the request of a name search, for a query of any length.           *)
(***************************************************************************)
\* the first DATA_LEN bytes of the query, padded with zeros
QueryField(bytes) ==
  WriteAt(Zeros(DATA_LEN), 0, SubSeq(bytes, 1, Min(Len(bytes), DATA_LEN)))

\* C38: search_by_name builds its request for every query without a
\* panic; the frame has the zero address, the SEARCH_NAME flag, the mode
\* byte GET, and as data the first 10 bytes of the query.
C38_QueryTruncated ==
  (conv.op = "query" /\ conv.applied) =>
    /\ ~conv.res.panic
    /\ conv.res.frame =
         RequestFrame(Zeros(ADDR_LEN), masks_SEARCH_NAME, GET, QueryField(conv.arg))

(***************************************************************************)
(* C39: a percentage through the binding layer and back.                   *)
(***************************************************************************)
\* C39: for every percentage 0..100, get_brightness gives back the
\* percentage set_brightness was called with.
C39_BrightnessRoundTrip ==
  (conv.op = "pct" /\ conv.applied) => conv.res.pct = conv.arg


(***************************************************************************)
(* C40: what a flush wrote is what a fresh Storage loads.                  *)
(***************************************************************************)
\* C40: after flush, get_devices of a fresh Storage on the same path is
\* the map that was flushed, whatever the file held before.
C40_StorageRoundTrip ==
  (conv.op = "store" /\ conv.applied) => conv.res.loaded = conv.arg.data

=============================================================================
